---- MODULE Spec2Model ----
(***************************************************************************)
(* A model of goforensics-core's evidence ingestion pipeline (PST archive, *)
(* ZIP-of-EML archive, live Outlook mailbox) and of its contact-network    *)
(* builder.                                                                *)
(*                                                                         *)
(* The Tree Store, the Attachment Sink, the Message Bus, the archive       *)
(* decoder and the IMAP session are collaborators: each of their calls     *)
(* either succeeds or returns an error, chosen nondeterministically.       *)
(* NewUUID yields a fresh identity on every call.                          *)
(***************************************************************************)
EXTENDS Integers, Sequences, FiniteSets, TLC

(***************************************************************************)
(* Program constants and bounds of the model.                              *)
(***************************************************************************)
\* The batch threshold written in the three ingestion loops.
BatchSize == 100

\* Largest number of sub-folders of a modelled archive.
MaxFolders == 3
\* Largest number of source messages of an archive (or mailbox list) whose
\* messages vary in content.
MaxTreeMsgs == 2
\* Largest number of source messages of a single-folder archive, ZIP or
\* single mailbox with uniform message content (exercises the batches).
MaxMsgs == 250
\* Largest number of mailboxes of a modelled account.
MaxMailboxes == 3
\* Largest number of "imap: connection closed" answers in one run.
MaxReconnects == 2
\* Largest number of ingestion attempts made for one evidence item, and the
\* largest message count of a folder of an item that is ingested again.
MaxAttempts == 2
MaxRetryMsgs == 1

\* Largest number of indexed messages of a project.
MaxNetMsgs == 3
\* Largest message count of a mailbox whose progress reports are computed.
MaxProgressMsgs == 5000
\* Largest number of addresses in an envelope field joined on its own.
MaxAddresses == 3

messageNullValue == "NULL"

VARIABLES
    input,          \* the job: evidence container or live mailbox account
    evidence,       \* the in-memory Evidence value handed to Parse
    dbEvidence,     \* isParsed column of the persisted evidence record
    treeNodes,      \* rows of tree_nodes, in insertion order
    uploads,        \* object names put into the Attachment Sink, in order
    kafkaMessages,  \* the batch buffer of the running loop
    published,      \* the WriteMessages calls made, each a batch
    normalized,     \* the messages the normalizers returned, in order
    nextUUID,       \* number of identities NewUUID has handed out
    pc,             \* position of the ingestion
    stack,          \* parseSubFolders activations
    cur,            \* the folder / mailbox whose messages are being read
    more,           \* whether the current message list has a further entry
    total,          \* source messages read so far
    parserCalls,    \* names of the parsers Evidence.Parse invoked
    parsedSets,     \* number of assignments evidence.IsParsed = true
    result,         \* "running", "ok" or the error returned
    mbox,           \* the selected mailbox: name, message count, messages sent
    progress,       \* the values sent on the progress channel, in order
    closes,         \* number of close calls on the progress channel
    sessions,       \* number of IMAP sessions authenticated
    logouts,        \* the sessions Logout was called on
    pendingFetch,   \* fetch tasks whose result was not received yet
    reconnects,     \* number of "imap: connection closed" answers to Select
    selected,       \* the mailboxes selected, with the session used, in order
    fetched,        \* the fetch results received, with the mailbox, in order
    attempts,       \* number of ingestion attempts started for the job
    before,         \* what the earlier attempts left in the stores
    created,        \* the messages createMessage returned when called alone
    joined,         \* the header parseAddress returned when called alone
    listed,         \* the addresses getAddressesFromHeader read from joined
    netPc,          \* position of GetNetwork
    allMessages,    \* the indexed messages GetNetwork has ranged over
    messageIDs,     \* the message-ids GetNetwork has counted
    sentMap,        \* sentMap[x][y]: times address x sent to address y
    firstSentMessageDate,
    lastSentMessageDate,
    networkNodes,   \* the NetworkNodes appended so far
    networkLinks,   \* the NetworkLinks appended so far
    fromTodo,       \* keys of sentMap the outer range has not yielded yet
    fromAddress,    \* the key the outer range is at
    toTodo,         \* keys of sentMap[fromAddress] the inner range has not yielded yet
    network         \* the Network GetNetwork returned, with its error

liveVars == <<mbox, progress, closes, sessions, logouts, pendingFetch,
              reconnects, selected>>

fetchVars == <<fetched>>

netVars == <<netPc, allMessages, messageIDs, sentMap, firstSentMessageDate,
             lastSentMessageDate, networkNodes, networkLinks, fromTodo,
             fromAddress, toTodo, network>>

retryVars == <<attempts, before>>

normalizerVars == <<created, joined, listed>>

ingestVars == <<input, evidence, dbEvidence, treeNodes, uploads, kafkaMessages,
                published, normalized, nextUUID, pc, stack, cur, more, total,
                parserCalls, parsedSets, result, mbox, progress, closes,
                sessions, logouts, pendingFetch, reconnects, selected,
                attempts, before, created, joined, listed, fetched>>

vars == <<ingestVars, netVars>>

(***************************************************************************)
(* Source data.                                                            *)
(***************************************************************************)
\* A fallible accessor's result.
Ok(v) == [err |-> FALSE, val |-> v]
Err(v) == [err |-> TRUE, val |-> v]

\* The accessors of a PST item beyond those of a mail: the message class,
\* the appointment properties and the contact properties.  A mail has class
\* IPM.Note and none of the properties.
MailItem ==
    [messageClass |-> Ok("IPM.Note"),
     allAttendees |-> Err(""), location |-> Err(""), startTime |-> Err(""),
     endTime |-> Err(""), givenName |-> Err(""), emailDisplayName |-> Err(""),
     companyName |-> Err(""), businessPhoneNumber |-> Err(""),
     mobilePhoneNumber |-> Err("")]

\* A typical source message: every accessor succeeds, no attachment.
TypicalNative ==
    [messageId |-> "m1", subject |-> Ok("s"), from |-> Ok("a@x"),
     to |-> Ok("b@x"), cc |-> Ok(""), body |-> Ok("b"),
     bodyHTML |-> Ok("<p>b</p>"), headers |-> Ok("h"),
     date |-> Ok(7), atts |-> 0] @@ MailItem

\* A message dated before the Unix epoch, with blank fields and one attachment.
PreEpochNative ==
    [messageId |-> "", subject |-> Ok(" "), from |-> Ok(""),
     to |-> Ok("b@x"), cc |-> Ok(""), body |-> Ok(""), bodyHTML |-> Err(""),
     headers |-> Ok(""), date |-> Ok(-5), atts |-> 1] @@ MailItem

\* A message whose date and subject cannot be read (unset in an envelope).
NoDateNative ==
    [messageId |-> "m2", subject |-> Err(""), from |-> Ok("a@x"),
     to |-> Err(""), cc |-> Ok("c@x"), body |-> Err(""), bodyHTML |-> Err(""),
     headers |-> Ok("h"), date |-> Err(0), atts |-> 0] @@ MailItem

NativeMsgs == {TypicalNative, PreEpochNative, NoDateNative}

\* Parent vectors of the sub-folders 1..n of an archive: folder i hangs under
\* parent[i] < i, 0 being the root folder.
ParentVectors(n) == {p \in [1..n -> 0..n] : \A i \in 1..n : p[i] < i}

\* The sub-folders of folder f, in the decoder's order.
RECURSIVE ChildrenFrom(_, _, _)
ChildrenFrom(parent, f, i) ==
    IF i > Len(parent) THEN <<>>
    ELSE (IF parent[i] = f THEN <<i>> ELSE <<>>) \o ChildrenFrom(parent, f, i + 1)

\* The sub-folders of folder f, the last one first.
ChildrenLastFirst(parent, f) ==
    LET c == ChildrenFrom(parent, f, 1)
    IN [i \in 1..Len(c) |-> c[Len(c) + 1 - i]]

Children(parent, f) == ChildrenFrom(parent, f, 1)

FileNames == {"hash-mail.pst", "hash-mail.zip", "hash-mail.txt"}

\* filepath.Ext on the modelled file names.
Ext(fileName) ==
    CASE fileName = "hash-mail.pst" -> ".pst"
      [] fileName = "hash-mail.zip" -> ".zip"
      [] OTHER -> ".txt"

\* strings.Split(fileName, "-")[1] on the modelled file names.
TitleOf(fileName) ==
    CASE fileName = "hash-mail.pst" -> "mail.pst"
      [] fileName = "hash-mail.zip" -> "mail.zip"
      [] OTHER -> "mail.txt"

ProjectUUID == "p1"

\* The evidence containers of the model: archives of up to MaxFolders
\* sub-folders holding up to MaxTreeMsgs messages of varying content, any of
\* which may be unreadable, and single-folder archives of up to MaxMsgs
\* typical messages that are all readable.
EvidenceInputs ==
    {[kind |-> "evidence", fileName |-> f, isParsed |-> b, parent |-> p,
      mailboxes |-> <<>>, cap |-> MaxTreeMsgs, natives |-> NativeMsgs, varied |-> TRUE] :
        f \in FileNames, b \in BOOLEAN,
        p \in UNION {ParentVectors(n) : n \in 0..MaxFolders}}
    \cup
    {[kind |-> "evidence", fileName |-> f, isParsed |-> FALSE, parent |-> <<0>>,
      mailboxes |-> <<>>, cap |-> MaxMsgs, natives |-> {TypicalNative}, varied |-> FALSE] :
        f \in {"hash-mail.pst", "hash-mail.zip"}}

\* The mailbox names an account lists.
MailboxName(i) == "mailbox" \o ToString(i)

\* The live accounts of the model: up to MaxMailboxes mailboxes holding up to
\* MaxTreeMsgs messages of varying content, and one mailbox of MaxMsgs
\* typical messages.
LiveInputs ==
    {[kind |-> "live", fileName |-> "", isParsed |-> FALSE, parent |-> <<>>,
      mailboxes |-> [i \in 1..k |-> MailboxName(i)], cap |-> MaxTreeMsgs,
      natives |-> NativeMsgs, varied |-> TRUE] : k \in 0..MaxMailboxes}
    \cup
    {[kind |-> "live", fileName |-> "", isParsed |-> FALSE, parent |-> <<>>,
      mailboxes |-> <<MailboxName(1)>>, cap |-> MaxMsgs,
      natives |-> {TypicalNative}, varied |-> FALSE]}

(***************************************************************************)
(* Helpers.                                                                *)
(***************************************************************************)
\* util.go NewUUID: the n-th identity handed out.
NewUUID(n) == "u" \o ToString(n)

\* strings.TrimSpace(s) == "" on the strings of the model.
IsBlank(s) == s \in {"", " ", "\n"}

\* message.go initializeEmptyMessageValues.
initializeEmptyMessageValues(m) ==
    [m EXCEPT
        !.MessageID = IF IsBlank(@) THEN messageNullValue ELSE @,
        !.Subject = IF IsBlank(@) THEN messageNullValue ELSE @,
        !.From = IF IsBlank(@) THEN messageNullValue ELSE @,
        !.To = IF IsBlank(@) THEN messageNullValue ELSE @,
        !.CC = IF IsBlank(@) THEN messageNullValue ELSE @,
        !.Size = IF IsBlank(@) THEN messageNullValue ELSE @,
        !.Body = IF IsBlank(@) THEN messageNullValue ELSE @,
        !.Headers = IF IsBlank(@) THEN messageNullValue ELSE @]

\* message.go Message.JSON: the payload is the message after
\* initializeEmptyMessageValues, field by field.
JSON(m) == initializeEmptyMessageValues(m)

\* The zero value of Message.
ZeroMessage ==
    [UUID |-> "", ProjectUUID |-> "", MessageID |-> "", Subject |-> "",
     From |-> "", To |-> "", CC |-> "", Received |-> 0, Size |-> "",
     Body |-> "", Headers |-> "", Attachments |-> <<>>, FolderUUID |-> "",
     EvidenceUUID |-> ""]

\* kafka.Message{Key: message.UUID, Value: message.JSON()}.
KafkaMessage(m) == [Key |-> m.UUID, Value |-> JSON(m)]

RECURSIVE Flatten(_)
Flatten(batches) ==
    IF batches = <<>> THEN <<>> ELSE Head(batches) \o Flatten(Tail(batches))

Last(s) == s[Len(s)]

\* Evidence.Save: INSERT ... ON CONFLICT(uuid) DO UPDATE SET isParsed = $4.
EvidenceSave(ev) == ev.IsParsed

\* Only the innermost activation of parseMailboxes returns r; the enclosing
\* one goes on with its loop.
ReturnInnermost(r) ==
    /\ pc' = IF input.kind = "live" /\ Len(stack) > 1 THEN "LiveLoop" ELSE "Done"
    /\ result' = r
    /\ stack' = IF input.kind = "live" /\ Len(stack) > 1 THEN Tail(stack) ELSE <<>>
    /\ kafkaMessages' = <<>>
    /\ more' = FALSE

\* The ingestion ends and the error r is dropped: the entry point returns nil.
ReturnNil(r) ==
    /\ pc' = "Done"
    /\ result' = "ok"
    /\ stack' = <<>>
    /\ kafkaMessages' = <<>>
    /\ more' = FALSE

\* The ingestion ends: the entry point returns r.
Return(r) ==
    /\ pc' = "Done"
    /\ result' = r
    /\ stack' = <<>>
    /\ kafkaMessages' = <<>>
    /\ more' = FALSE

(***************************************************************************)
(* Evidence.Parse and the parser registry.                                 *)
(***************************************************************************)
\* parser.go GetParsers, with each parser's GetSupportedFileExtensions.
GetParsers ==
    <<[name |-> "PST", extensions |-> {".pst"}],
      [name |-> "EML", extensions |-> {".zip"}]>>

\* Every registered parser, whatever the file's extension.
SupportingParsersAny(fileName) == GetParsers

\* The parsers whose extension list holds the file's extension, in order.
SupportingParsers(fileName) ==
    SelectSeq(GetParsers, LAMBDA p : Ext(fileName) \in p.extensions)

\* The guard of Evidence.Parse: the evidence was ingested before.
AlreadyParsedNever(ev) == FALSE

AlreadyParsed(ev) == ev.IsParsed

\* evidence.go Evidence.Parse, up to the call of the supporting parser.  No
\* two registered parsers share an extension, so the parser's return value
\* is the return value of Parse.
Parse ==
    /\ pc = "Parse"
    /\ IF AlreadyParsed(evidence)
       THEN /\ Return("evidence is already parsed")
            /\ UNCHANGED parserCalls
       ELSE IF SupportingParsers(evidence.FileName) = <<>>
       THEN /\ Return("failed to find supported parser")
            /\ UNCHANGED parserCalls
       ELSE LET parser == Head(SupportingParsers(evidence.FileName)) IN
            /\ parserCalls' = Append(parserCalls, parser.name)
            /\ pc' = IF parser.name = "PST" THEN "PSTOpen" ELSE "EMLPrepare"
            /\ UNCHANGED <<result, stack, kafkaMessages, more>>
    /\ UNCHANGED <<input, evidence, dbEvidence, treeNodes, uploads, published,
                   normalized, nextUUID, cur, total, parsedSets>>
    /\ UNCHANGED liveVars
    /\ UNCHANGED netVars
    /\ UNCHANGED retryVars
    /\ UNCHANGED normalizerVars
    /\ UNCHANGED fetchVars

(***************************************************************************)
(* PSTParser.                                                              *)
(***************************************************************************)
\* The errors PSTParser.Parse returns before the root tree node is built.
PSTOpenErrors ==
    {"failed to create new PST file", "failed to read signature",
     "invalid file signature", "failed to get content type",
     "failed to get format type", "failed to get encryption type",
     "failed to initialize node and block b-tree",
     "failed to initialize Name-To-ID Map", "failed to get root folder"}

\* PSTParser.Parse: opening the file up to GetRootFolder.
PSTOpen ==
    /\ pc = "PSTOpen"
    /\ \/ \E e \in PSTOpenErrors : Return(e)
       \/ /\ pc' = "PSTRoot"
          /\ UNCHANGED <<result, stack, kafkaMessages, more>>
    /\ UNCHANGED <<input, evidence, dbEvidence, treeNodes, uploads, published,
                   normalized, nextUUID, cur, total, parserCalls, parsedSets>>
    /\ UNCHANGED liveVars
    /\ UNCHANGED netVars
    /\ UNCHANGED retryVars
    /\ UNCHANGED normalizerVars
    /\ UNCHANGED fetchVars

\* A root TreeNode whose parent is left at the zero value.
RootTreeNodeNoSentinel(uuid, ev) ==
    [FolderUUID |-> uuid, ProjectUUID |-> ProjectUUID, EvidenceUUID |-> ev.UUID,
     Title |-> TitleOf(ev.FileName), Parent |-> ""]

\* The root TreeNode both archive parsers build.
RootTreeNode(uuid, ev) ==
    [FolderUUID |-> uuid, ProjectUUID |-> ProjectUUID, EvidenceUUID |-> ev.UUID,
     Title |-> TitleOf(ev.FileName), Parent |-> "NULL"]

\* A sub-folder's TreeNode that names itself as its parent.
SubFolderTreeNodeSelfParent(uuid, ev, folder, parentNode) ==
    [FolderUUID |-> uuid, ProjectUUID |-> "", EvidenceUUID |-> ev.UUID,
     Title |-> "folder" \o ToString(folder), Parent |-> uuid]

\* The TreeNode parseSubFolders builds for a sub-folder (ProjectUUID is not set).
SubFolderTreeNode(uuid, ev, folder, parentNode) ==
    [FolderUUID |-> uuid, ProjectUUID |-> "", EvidenceUUID |-> ev.UUID,
     Title |-> "folder" \o ToString(folder), Parent |-> parentNode]

\* A Save that reports success and stores no row.
TreeNodeSaveLost(rows, node) == rows

\* TreeNode.Save succeeding: one more row.
TreeNodeSave(rows, node) == Append(rows, node)

\* PSTParser.Parse: the root tree node is built and saved.
PSTSaveRoot ==
    /\ pc = "PSTRoot"
    /\ nextUUID' = nextUUID + 1
    /\ LET node == RootTreeNode(NewUUID(nextUUID + 1), evidence) IN
       \/ /\ Return("failed to save tree node")
          /\ UNCHANGED <<treeNodes, cur>>
       \/ /\ treeNodes' = TreeNodeSave(treeNodes, node)
          /\ cur' = [folder |-> 0, node |-> node.FolderUUID]
          /\ pc' = "PSTCall"
          /\ UNCHANGED <<result, stack, kafkaMessages, more>>
    /\ UNCHANGED <<input, evidence, dbEvidence, uploads, published, normalized,
                   total, parserCalls, parsedSets>>
    /\ UNCHANGED liveVars
    /\ UNCHANGED netVars
    /\ UNCHANGED retryVars
    /\ UNCHANGED normalizerVars
    /\ UNCHANGED fetchVars

\* parseSubFolders is entered for folder cur.folder with tree node cur.node:
\* GetSubFolders.  An error of parseSubFolders at any depth is returned up to
\* PSTParser.Parse, which returns "failed to get sub-folders".
PSTParseSubFolders ==
    /\ pc = "PSTCall"
    /\ \/ Return("failed to get sub-folders")
       \/ /\ stack' = <<[node |-> cur.node,
                         todo |-> Children(input.parent, cur.folder)]>> \o stack
          /\ pc' = "PSTLoop"
          /\ UNCHANGED <<result, kafkaMessages, more>>
    /\ UNCHANGED <<input, evidence, dbEvidence, treeNodes, uploads, published,
                   normalized, nextUUID, cur, total, parserCalls, parsedSets>>
    /\ UNCHANGED liveVars
    /\ UNCHANGED netVars
    /\ UNCHANGED retryVars
    /\ UNCHANGED normalizerVars
    /\ UNCHANGED fetchVars

\* One iteration of parseSubFolders' loop up to the messages: GetMessages,
\* the sub-folder's TreeNode is built and saved.
PSTSubFolder ==
    /\ pc = "PSTLoop"
    /\ stack # <<>>
    /\ Head(stack).todo # <<>>
    /\ LET frame == Head(stack)
           subFolder == Head(frame.todo)
           node == SubFolderTreeNode(NewUUID(nextUUID + 1), evidence, subFolder,
                                     frame.node)
       IN
       \/ \* GetMessages fails
          /\ Return("failed to get sub-folders")
          /\ UNCHANGED <<treeNodes, cur, nextUUID>>
       \/ \* Save fails
          /\ Return("failed to get sub-folders")
          /\ nextUUID' = nextUUID + 1
          /\ UNCHANGED <<treeNodes, cur>>
       \/ /\ nextUUID' = nextUUID + 1
          /\ treeNodes' = TreeNodeSave(treeNodes, node)
          /\ cur' = [folder |-> subFolder, node |-> node.FolderUUID]
          /\ stack' = <<[frame EXCEPT !.todo = Tail(@)]>> \o Tail(stack)
          /\ \E hasMessages \in {b \in BOOLEAN : b => total < input.cap} :
                /\ more' = hasMessages
                /\ pc' = IF hasMessages THEN "PSTMessages" ELSE "PSTCall"
          /\ kafkaMessages' = <<>>
          /\ UNCHANGED result
    /\ UNCHANGED <<input, evidence, dbEvidence, uploads, published, normalized,
                   total, parserCalls, parsedSets>>
    /\ UNCHANGED liveVars
    /\ UNCHANGED netVars
    /\ UNCHANGED retryVars
    /\ UNCHANGED normalizerVars
    /\ UNCHANGED fetchVars

\* What can happen to one attachment of a PST message.
PSTAttachmentOutcomes == {"ok", "nameErr", "writeErr", "uploadErr", "removeErr"}

\* The attachment loop of parseSubFolders over the outcomes os, the first
\* identity being NewUUID(n + 1): the Attachment records, the uploaded object
\* names, and whether the loop returned an error.
RECURSIVE PSTAttachments(_, _)
PSTAttachments(os, n) ==
    IF os = <<>> THEN [atts |-> <<>>, ups |-> <<>>, err |-> FALSE]
    ELSE LET o == Head(os)
             att == [UUID |-> NewUUID(n + 1),
                     Name |-> IF o = "nameErr" THEN "EMPTY_FILENAME" ELSE "file"]
             rest == PSTAttachments(Tail(os), n + 1)
         IN CASE o = "writeErr" ->
                    [rest EXCEPT !.atts = <<att>> \o @]
              [] o = "uploadErr" ->
                    [atts |-> <<att>>, ups |-> <<>>, err |-> TRUE]
              [] o = "removeErr" ->
                    [atts |-> <<att>>, ups |-> <<att.UUID>>, err |-> TRUE]
              [] OTHER ->
                    [rest EXCEPT !.atts = <<att>> \o @, !.ups = <<att.UUID>> \o @]

\* createMessage: the line written to the body for one property, when its
\* accessor succeeds.
BodyLine(label, accessor) ==
    IF accessor.err THEN "" ELSE label \o ": " \o accessor.val \o "\n"

\* createMessage: the lines synthesized for an appointment or a contact,
\* when GetMessageClass succeeds.
SynthesizedBody(native) ==
    IF native.messageClass.err THEN ""
    ELSE IF native.messageClass.val = "IPM.Appointment"
    THEN BodyLine("All attendees", native.allAttendees)
            \o BodyLine("Location", native.location)
            \o BodyLine("Start time", native.startTime)
            \o BodyLine("End time", native.endTime)
    ELSE IF native.messageClass.val = "IPM.Contact"
    THEN BodyLine("Given name", native.givenName)
            \o BodyLine("Email display name", native.emailDisplayName)
            \o BodyLine("Company name", native.companyName)
            \o BodyLine("Business phone number", native.businessPhoneNumber)
            \o BodyLine("Mobile phone number", native.mobilePhoneNumber)
    ELSE ""

\* A body that takes the plain rendering whenever GetBody succeeds.
RenderedBodyPlainFirst(native) ==
    IF ~native.body.err THEN "\n" \o native.body.val
    ELSE IF ~native.bodyHTML.err THEN "\n" \o native.bodyHTML.val
    ELSE ""

\* createMessage: GetBodyHTML, and GetBody when GetBodyHTML fails.
RenderedBody(native) ==
    IF ~native.bodyHTML.err THEN "\n" \o native.bodyHTML.val
    ELSE IF ~native.body.err THEN "\n" \o native.body.val
    ELSE ""

\* bookmark.go createMessage.
createMessage(native, folderUUID, ev, attachments, uuid) ==
    [ZeroMessage EXCEPT
        !.Body = SynthesizedBody(native) \o RenderedBody(native),
        !.Subject = IF native.subject.err THEN "" ELSE native.subject.val,
        !.From = IF native.from.err THEN "" ELSE native.from.val,
        !.To = IF native.to.err THEN "" ELSE native.to.val,
        !.CC = IF native.cc.err THEN "" ELSE native.cc.val,
        !.Received = IF native.date.err THEN 0
                     ELSE IF native.date.val < 0 THEN 0 ELSE native.date.val,
        !.Headers = IF native.headers.err THEN "" ELSE native.headers.val,
        !.UUID = uuid,
        !.ProjectUUID = ProjectUUID,
        !.Attachments = attachments,
        !.FolderUUID = folderUUID,
        !.EvidenceUUID = ev.UUID]

\* The flush condition of parseSubFolders' message loop.
PSTBatchFull(buffer) == Len(buffer) >= BatchSize

\* A buffer that is not cleared after WriteMessages.
AfterFlushKept(buffer) == buffer

\* The buffer after a successful WriteMessages in a message loop.
AfterFlush(buffer) == <<>>

\* One iteration of parseSubFolders' message loop: the attachments, the
\* message, the append and the flush of a full buffer.
PSTMessage ==
    /\ pc = "PSTMessages"
    /\ more
    /\ total' = total + 1
    /\ \E native \in input.natives :
       \/ \* GetAttachments fails
          /\ Return("failed to get sub-folders")
          /\ UNCHANGED <<uploads, published, normalized, nextUUID>>
       \/ \E os \in [1..native.atts -> PSTAttachmentOutcomes] :
          LET done == PSTAttachments(os, nextUUID)
              used == Len(done.atts)
              message == createMessage(native, cur.node, evidence, done.atts,
                                       NewUUID(nextUUID + used + 1))
              buffer == Append(kafkaMessages, KafkaMessage(message))
          IN
          /\ uploads' = uploads \o done.ups
          /\ IF done.err
             THEN /\ Return("failed to get sub-folders")
                  /\ nextUUID' = nextUUID + used
                  /\ UNCHANGED <<published, normalized>>
             ELSE /\ nextUUID' = nextUUID + used + 1
                  /\ normalized' = Append(normalized, KafkaMessage(message))
                  /\ IF PSTBatchFull(buffer)
                     THEN \/ /\ Return("failed to get sub-folders")
                             /\ UNCHANGED published
                          \/ /\ published' = Append(published, buffer)
                             /\ kafkaMessages' = AfterFlush(buffer)
                             /\ more' \in {b \in BOOLEAN : b => total' < input.cap}
                             /\ UNCHANGED <<pc, result, stack>>
                     ELSE /\ kafkaMessages' = buffer
                          /\ more' \in {b \in BOOLEAN : b => total' < input.cap}
                          /\ UNCHANGED <<pc, result, stack, published>>
    /\ UNCHANGED <<input, evidence, dbEvidence, treeNodes, cur, parserCalls,
                   parsedSets>>
    /\ UNCHANGED liveVars
    /\ UNCHANGED netVars
    /\ UNCHANGED retryVars
    /\ UNCHANGED normalizerVars
    /\ UNCHANGED fetchVars

\* The end of a sub-folder's message loop: the remainder is flushed and
\* parseSubFolders is called for the sub-folder.
PSTFlush ==
    /\ pc = "PSTMessages"
    /\ ~more
    /\ IF Len(kafkaMessages) > 0
       THEN \/ /\ Return("failed to get sub-folders")
               /\ UNCHANGED published
            \/ /\ published' = Append(published, kafkaMessages)
               /\ kafkaMessages' = <<>>
               /\ pc' = "PSTCall"
               /\ UNCHANGED <<result, stack, more>>
       ELSE /\ pc' = "PSTCall"
            /\ UNCHANGED <<result, stack, more, published, kafkaMessages>>
    /\ UNCHANGED <<input, evidence, dbEvidence, treeNodes, uploads, normalized,
                   nextUUID, cur, total, parserCalls, parsedSets>>
    /\ UNCHANGED liveVars
    /\ UNCHANGED netVars
    /\ UNCHANGED retryVars
    /\ UNCHANGED normalizerVars
    /\ UNCHANGED fetchVars

\* parseSubFolders has visited all sub-folders of its folder and returns nil.
PSTReturn ==
    /\ pc = "PSTLoop"
    /\ stack # <<>>
    /\ Head(stack).todo = <<>>
    /\ stack' = Tail(stack)
    /\ pc' = IF Tail(stack) = <<>> THEN "PSTFinish" ELSE "PSTLoop"
    /\ UNCHANGED <<input, evidence, dbEvidence, treeNodes, uploads, kafkaMessages,
                   published, normalized, nextUUID, cur, more, total, parserCalls,
                   parsedSets, result>>
    /\ UNCHANGED liveVars
    /\ UNCHANGED netVars
    /\ UNCHANGED retryVars
    /\ UNCHANGED normalizerVars
    /\ UNCHANGED fetchVars

\* PSTParser.Parse after parseSubFolders returned nil: the evidence is marked
\* parsed and saved.
PSTFinish ==
    /\ pc = "PSTFinish"
    /\ evidence' = [evidence EXCEPT !.IsParsed = TRUE]
    /\ parsedSets' = parsedSets + 1
    /\ \/ /\ Return("failed to save evidence")
          /\ UNCHANGED dbEvidence
       \/ /\ dbEvidence' = EvidenceSave(evidence')
          /\ Return("ok")
    /\ UNCHANGED <<input, treeNodes, uploads, published, normalized, nextUUID,
                   cur, total, parserCalls>>
    /\ UNCHANGED liveVars
    /\ UNCHANGED netVars
    /\ UNCHANGED retryVars
    /\ UNCHANGED normalizerVars
    /\ UNCHANGED fetchVars

(***************************************************************************)
(* EMLParser.                                                              *)
(***************************************************************************)
\* EMLParser.Parse: download, temporary directory, unzip.
EMLPrepare ==
    /\ pc = "EMLPrepare"
    /\ \/ \E e \in {"failed to download evidence", "mkdir failed", "unzip failed"} :
             Return(e)
       \/ /\ pc' = "EMLRoot"
          /\ UNCHANGED <<result, stack, kafkaMessages, more>>
    /\ UNCHANGED <<input, evidence, dbEvidence, treeNodes, uploads, published,
                   normalized, nextUUID, cur, total, parserCalls, parsedSets>>
    /\ UNCHANGED liveVars
    /\ UNCHANGED netVars
    /\ UNCHANGED retryVars
    /\ UNCHANGED normalizerVars
    /\ UNCHANGED fetchVars

\* EMLParser.Parse: the root tree node is built and saved; the walk starts.
EMLSaveRoot ==
    /\ pc = "EMLRoot"
    /\ nextUUID' = nextUUID + 1
    /\ LET node == RootTreeNode(NewUUID(nextUUID + 1), evidence) IN
       \/ /\ Return("failed to save tree node")
          /\ UNCHANGED <<treeNodes, cur>>
       \/ /\ treeNodes' = TreeNodeSave(treeNodes, node)
          /\ cur' = [folder |-> 0, node |-> node.FolderUUID]
          /\ pc' = "EMLWalk"
          /\ kafkaMessages' = <<>>
          /\ more' \in {b \in BOOLEAN : b => total < input.cap}
          /\ UNCHANGED <<result, stack>>
    /\ UNCHANGED <<input, evidence, dbEvidence, uploads, published, normalized,
                   total, parserCalls, parsedSets>>
    /\ UNCHANGED liveVars
    /\ UNCHANGED netVars
    /\ UNCHANGED retryVars
    /\ UNCHANGED normalizerVars
    /\ UNCHANGED fetchVars

\* What can happen in parseEMLFile to a file with n inline attachment parts
\* (varied: whether the archive holds unreadable files).
EMLOutcomes(n, varied) ==
    IF ~varied THEN {"ok"}
    ELSE IF n = 0 THEN {"ok", "openErr", "readErr"}
    ELSE {"ok", "openErr", "noName", "readErr", "writeErr", "uploadErr", "removeErr"}

\* parseEMLFile returns an error: the file is logged and skipped.
EMLSkipped(o) == o \in {"openErr", "writeErr", "uploadErr", "removeErr"}

\* parseEMLFile uploaded the attachment before it returned.
EMLUploaded(n, o) == n > 0 /\ o \in {"ok", "noName", "removeErr"}

\* parser_eml.go parseEMLFile returning a message and no error: the parsed
\* message, or the zero Message when reading a part's body failed.
parseEMLFile(native, rootTreeNodeUUID, attachments, uuid, o) ==
    IF o = "readErr" THEN ZeroMessage
    ELSE [ZeroMessage EXCEPT
            !.Subject = IF native.subject.err THEN "" ELSE native.subject.val,
            !.To = IF native.to.err THEN "" ELSE native.to.val,
            !.From = IF native.from.err THEN "" ELSE native.from.val,
            !.CC = IF native.cc.err THEN "" ELSE native.cc.val,
            !.Received = IF native.date.err THEN 0 ELSE native.date.val,
            !.UUID = uuid,
            !.ProjectUUID = ProjectUUID,
            !.FolderUUID = rootTreeNodeUUID,
            !.Headers = IF native.headers.err THEN "" ELSE native.headers.val,
            !.Body = IF native.body.err THEN "" ELSE native.body.val,
            !.Attachments = attachments]

\* The flush condition of EMLParser.Parse's walk.
EMLBatchFull(buffer) == Len(buffer) > BatchSize

\* One file of the walk: parseEMLFile, the append and the flush.
EMLFile ==
    /\ pc = "EMLWalk"
    /\ more
    /\ total' = total + 1
    /\ \E native \in input.natives : \E o \in EMLOutcomes(native.atts, input.varied) :
       LET made == native.atts > 0 /\ o # "openErr"
           att == [UUID |-> NewUUID(nextUUID + 1),
                   Name |-> IF o = "noName" THEN "" ELSE "file"]
           attachments == IF made THEN <<att>> ELSE <<>>
           used == Len(attachments)
           message == parseEMLFile(native, cur.node, attachments,
                                   NewUUID(nextUUID + used + 1), o)
           buffer == Append(kafkaMessages, KafkaMessage(message))
       IN
       /\ uploads' = IF EMLUploaded(native.atts, o)
                     THEN Append(uploads, att.UUID) ELSE uploads
       /\ IF EMLSkipped(o)
          THEN /\ nextUUID' = nextUUID + used
               /\ more' \in {b \in BOOLEAN : b => total' < input.cap}
               /\ UNCHANGED <<pc, result, stack, kafkaMessages, published,
                              normalized>>
          ELSE /\ nextUUID' = IF o = "readErr" THEN nextUUID + used
                              ELSE nextUUID + used + 1
               /\ normalized' = Append(normalized, KafkaMessage(message))
               /\ IF EMLBatchFull(buffer)
                  THEN \/ /\ Return("failed to write messages")
                          /\ UNCHANGED published
                       \/ /\ published' = Append(published, buffer)
                          /\ kafkaMessages' = AfterFlush(buffer)
                          /\ more' \in {b \in BOOLEAN : b => total' < input.cap}
                          /\ UNCHANGED <<pc, result, stack>>
                  ELSE /\ kafkaMessages' = buffer
                       /\ more' \in {b \in BOOLEAN : b => total' < input.cap}
                       /\ UNCHANGED <<pc, result, stack, published>>
    /\ UNCHANGED <<input, evidence, dbEvidence, treeNodes, cur, parserCalls,
                   parsedSets>>
    /\ UNCHANGED liveVars
    /\ UNCHANGED netVars
    /\ UNCHANGED retryVars
    /\ UNCHANGED normalizerVars
    /\ UNCHANGED fetchVars

\* EMLParser.Parse after the walk: the remainder is flushed, nil is returned.
EMLFlush ==
    /\ pc = "EMLWalk"
    /\ ~more
    /\ IF Len(kafkaMessages) > 0
       THEN \/ /\ Return("failed to write messages")
               /\ UNCHANGED published
            \/ /\ published' = Append(published, kafkaMessages)
               /\ Return("ok")
       ELSE /\ Return("ok")
            /\ UNCHANGED published
    /\ UNCHANGED <<input, evidence, dbEvidence, treeNodes, uploads, normalized,
                   nextUUID, cur, total, parserCalls, parsedSets>>
    /\ UNCHANGED liveVars
    /\ UNCHANGED netVars
    /\ UNCHANGED retryVars
    /\ UNCHANGED normalizerVars
    /\ UNCHANGED fetchVars

(***************************************************************************)
(* Live mailbox ingestion (parser_outlook.go).                             *)
(***************************************************************************)
\* ParseOutlookIMAPEmails: authentication, the mailbox list, and the call of
\* parseMailboxes on the listed names.
LiveStart ==
    /\ pc = "LiveStart"
    /\ \/ /\ Return("authentication failed")
          /\ UNCHANGED sessions
       \/ /\ Return("list failed")
          /\ sessions' = sessions + 1
       \/ /\ sessions' = sessions + 1
          /\ stack' = <<[names |-> input.mailboxes, idx |-> 1, parsed |-> <<>>]>>
          /\ pc' = "LiveLoop"
          /\ UNCHANGED <<result, kafkaMessages, more>>
    /\ UNCHANGED <<input, evidence, dbEvidence, treeNodes, uploads, published,
                   normalized, nextUUID, cur, total, parserCalls, parsedSets,
                   mbox, progress, closes, logouts, pendingFetch, reconnects,
                   selected>>
    /\ UNCHANGED netVars
    /\ UNCHANGED retryVars
    /\ UNCHANGED normalizerVars
    /\ UNCHANGED fetchVars

\* A retried pass that leaves out the mailbox Select failed on.
WantedMailboxesRest(names, parsedMailboxes) ==
    Tail(SelectSeq(names, LAMBDA n : \A i \in 1..Len(parsedMailboxes) :
                                         parsedMailboxes[i] # n))

\* A retried pass over the whole mailbox list.
WantedMailboxesAll(names, parsedMailboxes) == names

\* The mailboxes of names that are not in parsedMailboxes, in order.
WantedMailboxes(names, parsedMailboxes) ==
    SelectSeq(names, LAMBDA n : \A i \in 1..Len(parsedMailboxes) :
                                    parsedMailboxes[i] # n)

\* The message counts Select may report for the next mailbox.
MailboxSizes ==
    IF input.varied THEN 0..(input.cap - total) ELSE {input.cap - total}

\* One iteration of parseMailboxes' loop up to the start of the fetch task:
\* Select, and on "imap: connection closed" the re-authentication and the
\* recursive call on the mailboxes not parsed yet.
LiveSelect ==
    /\ pc = "LiveLoop"
    /\ stack # <<>>
    /\ Head(stack).idx <= Len(Head(stack).names)
    /\ LET frame == Head(stack)
           mailboxName == frame.names[frame.idx]
       IN
       /\ selected' = Append(selected, [name |-> mailboxName, session |-> sessions])
       /\ \/ \* Select succeeds, the fetch task is started
             \E n \in MailboxSizes :
                /\ mbox' = [name |-> mailboxName, messages |-> n,
                            totalSentMessages |-> 0, streamed |-> 0]
                /\ pendingFetch' = pendingFetch + 1
                /\ kafkaMessages' = <<>>
                /\ more' \in {b \in BOOLEAN : b => n > 0}
                /\ pc' = "LiveStream"
                /\ UNCHANGED <<result, stack, sessions, reconnects>>
          \/ \* "imap: connection closed", re-authentication fails
             /\ reconnects < MaxReconnects
             /\ reconnects' = reconnects + 1
             /\ Return("authentication failed")
             /\ UNCHANGED <<mbox, pendingFetch, sessions>>
          \/ \* "imap: connection closed", the recursive call
             /\ reconnects < MaxReconnects
             /\ reconnects' = reconnects + 1
             /\ sessions' = sessions + 1
             /\ stack' = <<[names |-> WantedMailboxes(frame.names, frame.parsed),
                            idx |-> 1, parsed |-> <<>>]>> \o stack
             /\ UNCHANGED <<pc, result, kafkaMessages, more, mbox, pendingFetch>>
          \/ \* any other error
             /\ Return("select failed")
             /\ UNCHANGED <<mbox, pendingFetch, sessions, reconnects>>
    /\ UNCHANGED <<input, evidence, dbEvidence, treeNodes, uploads, published,
                   normalized, nextUUID, cur, total, parserCalls, parsedSets,
                   progress, closes, logouts>>
    /\ UNCHANGED netVars
    /\ UNCHANGED retryVars
    /\ UNCHANGED normalizerVars
    /\ UNCHANGED fetchVars

\* parser_outlook.go parseAddress: every address is followed by ", ".
RECURSIVE parseAddress(_)
parseAddress(addresses) ==
    IF addresses = <<>> THEN ""
    ELSE Head(addresses) \o ", " \o parseAddress(Tail(addresses))

\* The address list of an envelope field.
EnvelopeAddresses(field) ==
    IF field.err \/ field.val = "" THEN <<>> ELSE <<field.val>>

\* time.Time{}.Unix() is -62135596800 s; kept here in units of 1000 s (the
\* numbers of the model are 32 bits wide), its sign being what matters.
ZeroTimeUnix == -62135596

\* parser_outlook.go parseIMAPMessage; an unset envelope date is the zero
\* time.Time.
parseIMAPMessage(native, uuid) ==
    [ZeroMessage EXCEPT
        !.UUID = uuid,
        !.ProjectUUID = ProjectUUID,
        !.MessageID = native.messageId,
        !.Subject = IF native.subject.err THEN "" ELSE native.subject.val,
        !.From = parseAddress(EnvelopeAddresses(native.from)),
        !.To = parseAddress(EnvelopeAddresses(native.to)),
        !.CC = parseAddress(EnvelopeAddresses(native.cc)),
        !.Received = IF native.date.err THEN ZeroTimeUnix ELSE native.date.val]

\* The flush condition of parseMailboxes' message loop.
LiveBatchFull(buffer) == Len(buffer) >= BatchSize

\* float64 arithmetic on positive values.  The 53 bits of a significand are
\* kept as five limbs, the first one holding the leading bit and each of the
\* others 13 bits: [limbs |-> <<t, a, b, c, d>>, exp |-> e] is the number
\* (t * 2^52 + a * 2^39 + b * 2^26 + c * 2^13 + d) * 2^(e - 52).
Float64Limb == 2^13

\* The limbs of the number plus inc units of its last bit.
RECURSIVE AddLimbs(_, _)
AddLimbs(limbs, inc) ==
    IF Len(limbs) = 1 THEN <<limbs[1] + inc>>
    ELSE LET v == limbs[Len(limbs)] + inc
         IN AddLimbs(SubSeq(limbs, 1, Len(limbs) - 1), v \div Float64Limb)
               \o <<v % Float64Limb>>

\* The limbs of the number times k, plus carry.
RECURSIVE TimesLimbs(_, _, _)
TimesLimbs(limbs, k, carry) ==
    IF Len(limbs) = 1 THEN <<limbs[1] * k + carry>>
    ELSE LET v == limbs[Len(limbs)] * k + carry
         IN TimesLimbs(SubSeq(limbs, 1, Len(limbs) - 1), k, v \div Float64Limb)
               \o <<v % Float64Limb>>

\* The next count limbs of r / d for 0 <= r < d, and the remainder left.
RECURSIVE QuotientLimbs(_, _, _)
QuotientLimbs(r, d, count) ==
    IF count = 0 THEN [limbs |-> <<>>, rem |-> r]
    ELSE LET rest == QuotientLimbs((r * Float64Limb) % d, d, count - 1)
         IN [limbs |-> <<(r * Float64Limb) \div d>> \o rest.limbs,
             rem |-> rest.rem]

\* n scaled by powers of two until d <= n < 2 * d, or d until the same
\* holds, with the exponent taken out of n / d.
RECURSIVE ScaleToUnit(_, _, _)
ScaleToUnit(n, d, exp) ==
    IF n < d THEN ScaleToUnit(2 * n, d, exp - 1)
    ELSE IF n >= 2 * d THEN ScaleToUnit(n, 2 * d, exp + 1)
    ELSE [n |-> n, d |-> d, exp |-> exp]

\* float64(n) / float64(d) for integers 0 < n, d < 2^17 (both conversions
\* are exact): the quotient rounded to 53 bits, to nearest, ties to even.
Float64Quotient(n, d) ==
    LET unit == ScaleToUnit(n, d, 0)
        q == QuotientLimbs(unit.n - unit.d, unit.d, 4)
        guard == 2 * q.rem >= unit.d
        sticky == 2 * q.rem # unit.d /\ q.rem # 0
        odd == q.limbs[4] % 2 = 1
        up == guard /\ (sticky \/ odd)
    IN [limbs |-> AddLimbs(<<1>> \o q.limbs, IF up THEN 1 ELSE 0),
        exp |-> unit.exp]

\* The number of bits of n > 0.
RECURSIVE BitLength(_)
BitLength(n) == IF n = 0 THEN 0 ELSE 1 + BitLength(n \div 2)

\* x * float64(k) for an integer 0 < k < 2^11: the product rounded to 53
\* bits, to nearest, ties to even.
Float64Times(x, k) ==
    LET product == TimesLimbs(x.limbs, k, 0)
        extra == BitLength(product[1]) - 1
        unit == 2^extra
        low == product[5] % unit
        kept == [product EXCEPT ![5] = @ - low]
        guard == extra > 0 /\ 2 * low >= unit
        sticky == 2 * low # unit /\ low # 0
        odd == (product[5] \div unit) % 2 = 1
        up == guard /\ (sticky \/ odd)
    IN [limbs |-> AddLimbs(kept, IF up THEN unit ELSE 0), exp |-> x.exp]

\* int(x) for 0 < x < 2^13: the fraction is dropped.
Float64ToInt(x) ==
    IF x.exp >= 0
    THEN x.limbs[1] * 2^x.exp + x.limbs[2] \div 2^(13 - x.exp)
    ELSE IF x.exp < -30 THEN 0
    ELSE x.limbs[1] \div 2^(-x.exp)

\* int((float64(totalSentMessages) / float64(mbox.Messages)) * float64(100)).
ProgressPercentage(totalSentMessages, messages) ==
    Float64ToInt(Float64Times(Float64Quotient(totalSentMessages, messages), 100))

\* One message received from the fetch task: parseIMAPMessage, the append,
\* and the flush of a full buffer with its progress report.
LiveMessage ==
    /\ pc = "LiveStream"
    /\ more
    /\ total' = total + 1
    /\ nextUUID' = nextUUID + 1
    /\ \E native \in input.natives :
       LET message == parseIMAPMessage(native, NewUUID(nextUUID + 1))
           buffer == Append(kafkaMessages, KafkaMessage(message))
           sent == mbox.totalSentMessages + Len(buffer)
       IN
       /\ normalized' = Append(normalized, KafkaMessage(message))
       /\ IF LiveBatchFull(buffer)
          THEN \/ /\ Return("failed to write messages")
                  /\ mbox' = [mbox EXCEPT !.streamed = @ + 1,
                                          !.totalSentMessages = sent]
                  /\ UNCHANGED <<published, progress>>
               \/ /\ published' = Append(published, buffer)
                  /\ progress' = Append(progress,
                                        ProgressPercentage(sent, mbox.messages))
                  /\ kafkaMessages' = AfterFlush(buffer)
                  /\ mbox' = [mbox EXCEPT !.streamed = @ + 1,
                                          !.totalSentMessages = sent]
                  /\ more' \in {b \in BOOLEAN : b => mbox.streamed + 1 < mbox.messages}
                  /\ UNCHANGED <<pc, result, stack>>
          ELSE /\ kafkaMessages' = buffer
               /\ mbox' = [mbox EXCEPT !.streamed = @ + 1]
               /\ more' \in {b \in BOOLEAN : b => mbox.streamed + 1 < mbox.messages}
               /\ UNCHANGED <<pc, result, stack, published, progress>>
    /\ UNCHANGED <<input, evidence, dbEvidence, treeNodes, uploads, cur,
                   parserCalls, parsedSets, closes, sessions, logouts,
                   pendingFetch, reconnects, selected>>
    /\ UNCHANGED netVars
    /\ UNCHANGED retryVars
    /\ UNCHANGED normalizerVars
    /\ UNCHANGED fetchVars

\* A trailing flush that reports nothing.
AfterTrailingFlushSilent(sent) == sent

\* The progress values sent once the trailing batch is published.
AfterTrailingFlush(sent) == Append(sent, 100)

\* The results a fetch task may report.
FetchResults ==
    {"nil", "The specified message set is invalid.", "imap: connection closed",
     "fetch failed"}

\* Only a nil result ends a mailbox without error.
MailboxDoneNilOnly(r) == r = "nil"

\* The fetch results after which the mailbox is appended to parsedMailboxes
\* and the loop goes on: nil, and the invalid message set, which is logged.
MailboxDone(r) == r \in {"nil", "The specified message set is invalid."}

\* The message channel was closed: the remainder is flushed with progress 100,
\* then the fetch task's result is received and the mailbox is recorded.
LiveMailboxEnd ==
    /\ pc = "LiveStream"
    /\ ~more
    /\ LET frame == Head(stack)
           flushed == Len(kafkaMessages) > 0
       IN
       \/ /\ flushed
          /\ Return("failed to write messages")
          /\ UNCHANGED <<published, progress, pendingFetch, fetched>>
       \/ /\ published' = IF flushed THEN Append(published, kafkaMessages)
                          ELSE published
          /\ progress' = IF flushed THEN AfterTrailingFlush(progress) ELSE progress
          /\ pendingFetch' = pendingFetch - 1
          /\ \E r \in FetchResults :
                /\ fetched' = Append(fetched, [name |-> mbox.name, result |-> r])
                /\ IF MailboxDone(r)
                   THEN /\ stack' = <<[frame EXCEPT
                                         !.parsed = Append(@, mbox.name),
                                         !.idx = @ + 1]>> \o Tail(stack)
                        /\ pc' = "LiveLoop"
                        /\ kafkaMessages' = <<>>
                        /\ UNCHANGED <<result, more>>
                   ELSE Return(r)
    /\ UNCHANGED <<input, evidence, dbEvidence, treeNodes, uploads, normalized,
                   nextUUID, cur, total, parserCalls, parsedSets, mbox, closes,
                   sessions, logouts, reconnects, selected>>
    /\ UNCHANGED netVars
    /\ UNCHANGED retryVars
    /\ UNCHANGED normalizerVars

\* parseMailboxes after its loop: the progress channel is closed.
LiveTerminal ==
    /\ pc = "LiveLoop"
    /\ stack # <<>>
    /\ Head(stack).idx > Len(Head(stack).names)
    /\ closes' = closes + 1
    /\ pc' = "LiveLogout"
    /\ UNCHANGED <<input, evidence, dbEvidence, treeNodes, uploads, published,
                   normalized, nextUUID, cur, total, parserCalls, parsedSets,
                   mbox, progress, sessions, pendingFetch, reconnects, selected,
                   logouts, result, stack, kafkaMessages, more>>
    /\ UNCHANGED netVars
    /\ UNCHANGED retryVars
    /\ UNCHANGED normalizerVars
    /\ UNCHANGED fetchVars

\* Logout is called on the first session of the run.
LogoutFirstSession(ls, session) == Append(ls, 1)

\* outlookClient.Logout() on the client the activation was called with.
Logout(ls, session) == Append(ls, session)

\* return outlookClient.Logout(): the session is logged out and every
\* enclosing activation returns that result.
LiveLogout ==
    /\ pc = "LiveLogout"
    /\ logouts' = Logout(logouts, sessions)
    /\ \/ Return("logout failed")
       \/ Return("ok")
    /\ UNCHANGED <<input, evidence, dbEvidence, treeNodes, uploads, published,
                   normalized, nextUUID, cur, total, parserCalls, parsedSets,
                   mbox, progress, sessions, pendingFetch, reconnects, selected,
                   closes>>
    /\ UNCHANGED netVars
    /\ UNCHANGED retryVars
    /\ UNCHANGED normalizerVars
    /\ UNCHANGED fetchVars

\* A Go map without entries.
EmptyMap == [k \in {} |-> 0]

\* m[k] = v on a Go map.
MapPut(m, k, v) == [x \in (DOMAIN m) \cup {k} |-> IF x = k THEN v ELSE m[x]]

(***************************************************************************)
(* Reading the folder tree.                                                *)
(***************************************************************************)
\* GetTreeNodesByParent: SELECT * FROM tree_nodes WHERE projectUUID = $1 AND
\* parent = $2, over the rows persisted.
GetTreeNodesByParent(parentTreeNodeUUID, projectUUID, rows) ==
    SelectSeq(rows, LAMBDA n : n.ProjectUUID = projectUUID
                               /\ n.Parent = parentTreeNodeUUID)

\* GetRootTreeNodes.
GetRootTreeNodes(projectUUID, rows) ==
    GetTreeNodesByParent("NULL", projectUUID, rows)

\* WalkTreeNodeChildren: the TreeNodeDTOs of the children of a tree node,
\* each with the DTOs of its own children.
RECURSIVE WalkTreeNodeChildren(_, _, _)
WalkTreeNodeChildren(treeNodeUUID, projectUUID, rows) ==
    LET treeNodeChildren == GetTreeNodesByParent(treeNodeUUID, projectUUID, rows)
    IN [k \in 1..Len(treeNodeChildren) |->
           [Value |-> treeNodeChildren[k].FolderUUID,
            Label |-> treeNodeChildren[k].Title,
            Children |-> WalkTreeNodeChildren(treeNodeChildren[k].FolderUUID,
                                              projectUUID, rows)]]

(***************************************************************************)
(* The Attachment Sink: UploadFile and ExportAttachmentsByProject.         *)
(***************************************************************************)
GetProjectDirectory(projectUUID) == "data/projects/" \o projectUUID

GetProjectTempDirectory(projectUUID) == GetProjectDirectory(projectUUID) \o "/tmp"

\* The temporary file a parser writes an attachment to before the upload.
AttachmentFile(projectUUID, attachmentUUID) ==
    GetProjectTempDirectory(projectUUID) \o "/" \o attachmentUUID

\* The object name UploadFile puts the file under.
UploadFile(fileName, filePath, projectUUID) == projectUUID \o "/" \o fileName

\* An export that looks the attachment up by its file name.
ExportObjectNameByName(projectUUID, attachment) ==
    projectUUID \o "/" \o attachment.Name

\* The object name ExportAttachmentsByProject reads an attachment from.
ExportObjectName(projectUUID, attachment) ==
    projectUUID \o "/" \o attachment.UUID

\* The bucket after the uploads of the list, in order: object name to file.
RECURSIVE PutObjects(_, _)
PutObjects(bucket, fileNames) ==
    IF fileNames = <<>> THEN bucket
    ELSE LET filePath == AttachmentFile(ProjectUUID, Head(fileNames))
         IN PutObjects(MapPut(bucket,
                              UploadFile(Head(fileNames), filePath, ProjectUUID),
                              filePath),
                       Tail(fileNames))

\* The objects of the Attachment Sink.
AttachmentSink == PutObjects(EmptyMap, uploads)

(***************************************************************************)
(* A fresh ingestion attempt after a fatal abort.                          *)
(***************************************************************************)
\* The surrounding system loads the evidence record again and calls
\* Evidence.Parse on it; the Tree Store, the Attachment Sink and the Message
\* Bus keep what the aborted attempt wrote.
Retry ==
    /\ pc = "Done"
    /\ input.kind = "evidence"
    /\ result # "ok"
    /\ attempts < MaxAttempts
    /\ attempts' = attempts + 1
    /\ before' = [published |-> before.published \o published,
                  uploads |-> Len(uploads), treeNodes |-> Len(treeNodes)]
    /\ evidence' = [evidence EXCEPT !.IsParsed = dbEvidence]
    /\ pc' = "Parse"
    /\ result' = "running"
    /\ published' = <<>>
    /\ normalized' = <<>>
    /\ total' = 0
    /\ parserCalls' = <<>>
    /\ parsedSets' = 0
    /\ cur' = [folder |-> 0, node |-> ""]
    /\ UNCHANGED <<input, dbEvidence, treeNodes, uploads, kafkaMessages,
                   nextUUID, stack, more>>
    /\ UNCHANGED liveVars
    /\ UNCHANGED netVars
    /\ UNCHANGED normalizerVars
    /\ UNCHANGED fetchVars

(***************************************************************************)
(* network.go: GetNetwork.                                                 *)
(***************************************************************************)
AddrA == "a@x.io"
AddrB == "b@x.io"
AddrC == "c@x.io"

\* The From, To and CC header values of the indexed messages of the model.
NetHeaders ==
    {messageNullValue, AddrA, AddrB, AddrC, "Al <a@x.io>, b@x.io",
     "b@x.io; c@x.io", "Bob", "a@"}

\* strings.Contains(s, substr)
RECURSIVE Contains(_, _)
Contains(s, substr) ==
    IF Len(s) < Len(substr) THEN FALSE
    ELSE IF SubSeq(s, 1, Len(substr)) = substr THEN TRUE
    ELSE Contains(Tail(s), substr)

\* strings.Contains(header, "; ")
ContainsSemicolon(header) == Contains(header, "; ")

\* strings.Split(header, "; "), read being the part of the entry read so far.
RECURSIVE SplitSemicolonFrom(_, _)
SplitSemicolonFrom(header, read) ==
    IF header = "" THEN <<read>>
    ELSE IF Len(header) >= 2 /\ SubSeq(header, 1, 2) = "; "
         THEN <<read>> \o SplitSemicolonFrom(SubSeq(header, 3, Len(header)), "")
         ELSE SplitSemicolonFrom(Tail(header), read \o SubSeq(header, 1, 1))

SplitSemicolon(header) == SplitSemicolonFrom(header, "")

\* strings.Contains(header, "@")
ContainsAt(header) == Contains(header, "@")

\* strings.Split(header, ","), read being the part of the entry read so far.
RECURSIVE SplitComma(_, _)
SplitComma(header, read) ==
    IF header = "" THEN <<read>>
    ELSE IF SubSeq(header, 1, 1) = ","
         THEN <<read>> \o SplitComma(Tail(header), "")
         ELSE SplitComma(Tail(header), read \o SubSeq(header, 1, 1))

\* The entry without the spaces around it.
RECURSIVE TrimSpace(_)
TrimSpace(entry) ==
    IF entry = "" THEN ""
    ELSE IF SubSeq(entry, 1, 1) = " " THEN TrimSpace(Tail(entry))
    ELSE IF SubSeq(entry, Len(entry), Len(entry)) = " "
         THEN TrimSpace(SubSeq(entry, 1, Len(entry) - 1))
         ELSE entry

\* The entries of a comma-separated list; empty entries are skipped
\* (RFC 5322 obs-addr-list).
ListEntries(header) ==
    LET entries == SplitComma(header, "")
    IN SelectSeq([i \in 1..Len(entries) |-> TrimSpace(entries[i])],
                 LAMBDA entry : entry # "")

\* mail.ParseAddressList(header): the Address fields of the list, or a parse
\* error for a mailbox without domain and for a list without an address.
ParseAddressList(header) ==
    CASE header \in {AddrA, AddrB, AddrC} -> Ok(<<header>>)
      [] header = "Al <a@x.io>, b@x.io" -> Ok(<<AddrA, AddrB>>)
      [] OTHER ->
            LET entries == ListEntries(header)
            IN IF /\ entries # <<>>
                  /\ \A i \in 1..Len(entries) : entries[i] \in {AddrA, AddrB, AddrC}
               THEN Ok(entries) ELSE Err(<<>>)

getAddressesFromHeader(header) ==
    IF header = messageNullValue THEN <<>>
    ELSE IF ContainsSemicolon(header) THEN SplitSemicolon(header)
    ELSE IF ~ContainsAt(header) THEN <<header>>
    ELSE LET parsed == ParseAddressList(header)
         IN IF parsed.err THEN <<>> ELSE parsed.val

\* A row of the messages index, reduced to the columns GetNetwork reads.
NetMessage(id, from, to, cc, received) ==
    [MessageID |-> id, From |-> from, To |-> to, CC |-> cc, Received |-> received]

\* The rows GetAllMessages can return: plain messages between two
\* addresses, with and without message-id, and messages with the other
\* header shapes and dates.
NetMessages ==
    {NetMessage(id, from, to, messageNullValue, 5) :
        id \in {messageNullValue, "m1"}, from \in {AddrA, AddrB}, to \in {AddrA, AddrB}}
    \cup
    {NetMessage("m2", AddrA, "b@x.io; c@x.io", messageNullValue, 9),
     NetMessage(messageNullValue, AddrC, AddrA, AddrA, 0),
     NetMessage("m2", "Al <a@x.io>, b@x.io", AddrC, "Bob", 3),
     NetMessage(messageNullValue, "Bob", "a@", messageNullValue, 5)}

\* Every address a header of the model can yield.
NetAddresses == {AddrA, AddrB, AddrC, "Bob"}

\* sentMap[x][y] as Go reads it: the zero value for a missing key.
SentCount(sm, x, y) ==
    IF x \in DOMAIN sm /\ y \in DOMAIN sm[x] THEN sm[x][y] ELSE 0

\* A lookup that finds no message-id.
containsMessageIDNever(ids, wantedMessageID) == FALSE

containsMessageID(ids, wantedMessageID) ==
    \E i \in 1..Len(ids) : ids[i] = wantedMessageID

containsLink(links, source, target) ==
    \E i \in 1..Len(links) : links[i].Source = source /\ links[i].Target = target

containsNode(nodes, wantedNode) ==
    \E i \in 1..Len(nodes) : nodes[i].ID = wantedNode

\* The inner loops of the "Sent" map: one count for every To / CC address.
RECURSIVE CountRecipients(_, _, _)
CountRecipients(sm, from, recipients) ==
    IF recipients = <<>> THEN sm
    ELSE LET to == Head(recipients)
             row == sm[from]
             n == IF to \in DOMAIN row THEN row[to] + 1 ELSE 1
         IN CountRecipients(MapPut(sm, from, MapPut(row, to, n)), from,
                            Tail(recipients))

\* The outer loop of the "Sent" map over the From addresses.
RECURSIVE CountSenders(_, _, _)
CountSenders(sm, senders, recipients) ==
    IF senders = <<>> THEN sm
    ELSE LET from == Head(senders)
             withRow == IF from \in DOMAIN sm THEN sm ELSE MapPut(sm, from, EmptyMap)
         IN CountSenders(CountRecipients(withRow, from, recipients),
                         Tail(senders), recipients)

\* Whether the loop counts a message or skips it as a copy.
Counted(ids, message) ==
    message.MessageID = messageNullValue \/ ~containsMessageID(ids, message.MessageID)

FirstDate(first, received) ==
    IF first = 0 THEN received
    ELSE IF received < first THEN received ELSE first

LastDate(last, received) ==
    IF last = 0 THEN received
    ELSE IF received > last THEN received ELSE last

\* The direction an address pair is looked up in for the received amount.
receivedAmountSameDirection(sm, from, to) == SentCount(sm, from, to)

receivedAmount(sm, from, to) == SentCount(sm, to, from)

NodeSize(sent, received) ==
    IF sent * received >= 30 THEN 30 ELSE sent * received

\* GetAllMessages: the query fails, or returns rows.
NetQuery ==
    /\ netPc = "Query"
    /\ \/ /\ netPc' = "Done"
          /\ network' = [network EXCEPT !.returned = TRUE, !.err = TRUE]
       \/ /\ netPc' = "Tally"
          /\ UNCHANGED network
    /\ UNCHANGED <<allMessages, messageIDs, sentMap, firstSentMessageDate,
                   lastSentMessageDate, networkNodes, networkLinks, fromTodo,
                   fromAddress, toTodo>>
    /\ UNCHANGED ingestVars

\* One iteration of the loop over allMessages; the rows are revealed one
\* per iteration.
NetTally ==
    /\ netPc = "Tally"
    /\ Len(allMessages) < MaxNetMsgs
    /\ \E message \in NetMessages :
         /\ allMessages' = Append(allMessages, message)
         /\ IF Counted(messageIDs, message)
            THEN /\ messageIDs' = IF message.MessageID # messageNullValue
                                  THEN Append(messageIDs, message.MessageID)
                                  ELSE messageIDs
                 /\ firstSentMessageDate' = FirstDate(firstSentMessageDate, message.Received)
                 /\ lastSentMessageDate' = LastDate(lastSentMessageDate, message.Received)
                 /\ sentMap' = CountSenders(sentMap,
                                    getAddressesFromHeader(message.From),
                                    getAddressesFromHeader(message.To)
                                        \o getAddressesFromHeader(message.CC))
            ELSE UNCHANGED <<messageIDs, firstSentMessageDate,
                             lastSentMessageDate, sentMap>>
    /\ UNCHANGED <<netPc, networkNodes, networkLinks, fromTodo, fromAddress,
                   toTodo, network>>
    /\ UNCHANGED ingestVars

\* The loop over allMessages ends and the range over sentMap begins.
NetTallyEnd ==
    /\ netPc = "Tally"
    /\ netPc' = "Build"
    /\ fromTodo' = DOMAIN sentMap
    /\ UNCHANGED <<allMessages, messageIDs, sentMap, firstSentMessageDate,
                   lastSentMessageDate, networkNodes, networkLinks,
                   fromAddress, toTodo, network>>
    /\ UNCHANGED ingestVars

\* The outer range yields its next key, in any order.
NetRangeFrom ==
    /\ netPc = "Build"
    /\ toTodo = {}
    /\ \E from \in fromTodo :
         /\ fromAddress' = from
         /\ fromTodo' = fromTodo \ {from}
         /\ toTodo' = DOMAIN sentMap[from]
    /\ UNCHANGED <<netPc, allMessages, messageIDs, sentMap, firstSentMessageDate,
                   lastSentMessageDate, networkNodes, networkLinks, network>>
    /\ UNCHANGED ingestVars

\* The inner range yields its next key, in any order, and the body of the
\* loop runs for the pair.
NetRangeTo ==
    /\ netPc = "Build"
    /\ \E toAddress \in toTodo :
         LET sentAmount == sentMap[fromAddress][toAddress]
             received == receivedAmount(sentMap, fromAddress, toAddress)
             size == NodeSize(sentAmount, received)
             nodes1 == IF ~containsNode(networkNodes, toAddress)
                       THEN Append(networkNodes, [ID |-> toAddress, Size |-> size])
                       ELSE networkNodes
             nodes2 == IF ~containsNode(nodes1, fromAddress)
                       THEN Append(nodes1, [ID |-> fromAddress, Size |-> size])
                       ELSE nodes1
         IN /\ toTodo' = toTodo \ {toAddress}
            /\ IF sentAmount > 0 /\ received > 0
               THEN /\ networkNodes' = nodes2
                    /\ networkLinks' =
                          IF ~containsLink(networkLinks, fromAddress, toAddress)
                          THEN Append(networkLinks,
                                      [Source |-> fromAddress, Target |-> toAddress])
                          ELSE networkLinks
               ELSE UNCHANGED <<networkNodes, networkLinks>>
    /\ UNCHANGED <<netPc, allMessages, messageIDs, sentMap, firstSentMessageDate,
                   lastSentMessageDate, fromTodo, fromAddress, network>>
    /\ UNCHANGED ingestVars

\* Both ranges are exhausted: the Network is returned.
NetReturn ==
    /\ netPc = "Build"
    /\ fromTodo = {}
    /\ toTodo = {}
    /\ netPc' = "Done"
    /\ network' = [returned |-> TRUE, err |-> FALSE, Nodes |-> networkNodes,
                   Links |-> networkLinks,
                   FirstSentMessageDate |-> firstSentMessageDate,
                   LastSentMessageDate |-> lastSentMessageDate]
    /\ UNCHANGED <<allMessages, messageIDs, sentMap, firstSentMessageDate,
                   lastSentMessageDate, networkNodes, networkLinks, fromTodo,
                   fromAddress, toTodo>>
    /\ UNCHANGED ingestVars

(***************************************************************************)
(* Initial state.                                                          *)
(***************************************************************************)
\* The ingestion state of a job before its first step.
IngestInit(jobs) ==
    /\ input \in jobs
    /\ evidence = [UUID |-> "e1", FileName |-> input.fileName,
                   IsParsed |-> input.isParsed]
    /\ dbEvidence = input.isParsed
    /\ treeNodes = <<>>
    /\ uploads = <<>>
    /\ kafkaMessages = <<>>
    /\ published = <<>>
    /\ normalized = <<>>
    /\ nextUUID = 0
    /\ pc = CASE input.kind = "evidence" -> "Parse"
              [] input.kind = "live" -> "LiveStart"
              [] input.kind = "message" -> "createMessage"
              [] input.kind = "progress" -> "ProgressSelect"
              [] input.kind = "addresses" -> "parseAddress"
              [] OTHER -> "Idle"
    /\ stack = <<>>
    /\ cur = [folder |-> 0, node |-> ""]
    /\ more = FALSE
    /\ total = 0
    /\ parserCalls = <<>>
    /\ parsedSets = 0
    /\ result = "running"
    /\ mbox = [name |-> "", messages |-> 0, totalSentMessages |-> 0, streamed |-> 0]
    /\ progress = <<>>
    /\ closes = 0
    /\ sessions = 0
    /\ logouts = <<>>
    /\ pendingFetch = 0
    /\ reconnects = 0
    /\ selected = <<>>
    /\ attempts = 1
    /\ before = [published |-> <<>>, uploads |-> 0, treeNodes |-> 0]
    /\ created = <<>>
    /\ joined = ""
    /\ listed = <<>>
    /\ fetched = <<>>

\* The state of GetNetwork before its first step.
NetInit(start) ==
    /\ netPc = start
    /\ allMessages = <<>>
    /\ messageIDs = <<>>
    /\ sentMap = EmptyMap
    /\ firstSentMessageDate = 0
    /\ lastSentMessageDate = 0
    /\ networkNodes = <<>>
    /\ networkLinks = <<>>
    /\ fromTodo = {}
    /\ fromAddress = ""
    /\ toTodo = {}
    /\ network = [returned |-> FALSE, err |-> FALSE, Nodes |-> <<>>, Links |-> <<>>,
                  FirstSentMessageDate |-> 0, LastSentMessageDate |-> 0]

\* An ingestion job is started; no network is requested.
Init ==
    /\ IngestInit(EvidenceInputs \cup LiveInputs)
    /\ NetInit("Idle")

Next ==
    \/ Parse
    \/ PSTOpen
    \/ PSTSaveRoot
    \/ PSTParseSubFolders
    \/ PSTSubFolder
    \/ PSTMessage
    \/ PSTFlush
    \/ PSTReturn
    \/ PSTFinish
    \/ EMLPrepare
    \/ EMLSaveRoot
    \/ EMLFile
    \/ EMLFlush
    \/ LiveStart
    \/ LiveSelect
    \/ LiveMessage
    \/ LiveMailboxEnd
    \/ LiveTerminal
    \/ LiveLogout

Spec == Init /\ [][Next]_vars

\* The live accounts whose runs are followed to their end: up to
\* MaxMailboxes mailboxes holding up to MaxTreeMsgs typical messages, and one
\* mailbox holding a full batch of them.
LiveAccounts ==
    {[kind |-> "live", fileName |-> "", isParsed |-> FALSE, parent |-> <<>>,
      mailboxes |-> [i \in 1..k |-> MailboxName(i)], cap |-> MaxTreeMsgs,
      natives |-> {TypicalNative}, varied |-> TRUE] : k \in 0..MaxMailboxes}
    \cup
    {[kind |-> "live", fileName |-> "", isParsed |-> FALSE, parent |-> <<>>,
      mailboxes |-> <<MailboxName(1)>>, cap |-> BatchSize,
      natives |-> {TypicalNative}, varied |-> FALSE]}

InitLive ==
    /\ IngestInit(LiveAccounts)
    /\ NetInit("Idle")

NextLive ==
    \/ LiveStart
    \/ LiveSelect
    \/ LiveMessage
    \/ LiveMailboxEnd
    \/ LiveTerminal
    \/ LiveLogout

\* Every network call, publish and progress send returns: the ingestor takes
\* its next step whenever it has one.
SpecLive == InitLive /\ [][NextLive]_vars /\ WF_vars(NextLive)

\* The job of a project whose corpus is indexed already.
NetworkJob ==
    [kind |-> "network", fileName |-> "", isParsed |-> TRUE, parent |-> <<>>,
     mailboxes |-> <<>>, cap |-> 0, natives |-> {}, varied |-> FALSE]

\* A network is requested; no ingestion runs.
InitNet ==
    /\ IngestInit({NetworkJob})
    /\ NetInit("Query")

NextNet ==
    \/ NetQuery
    \/ NetTally
    \/ NetTallyEnd
    \/ NetRangeFrom
    \/ NetRangeTo
    \/ NetReturn

SpecNet == InitNet /\ [][NextNet]_vars

\* The unparsed evidence items whose ingestion is attempted again: archives
\* without sub-folder or with one.
RetryInputs ==
    {[kind |-> "evidence", fileName |-> f, isParsed |-> FALSE, parent |-> p,
      mailboxes |-> <<>>, cap |-> MaxRetryMsgs, natives |-> NativeMsgs,
      varied |-> TRUE] :
        f \in FileNames, p \in {<<>>, <<0>>}}

\* An evidence item is ingested, and ingested again after a fatal abort.
InitRetry ==
    /\ IngestInit(RetryInputs)
    /\ NetInit("Idle")

NextRetry ==
    \/ Parse
    \/ PSTOpen
    \/ PSTSaveRoot
    \/ PSTParseSubFolders
    \/ PSTSubFolder
    \/ PSTMessage
    \/ PSTFlush
    \/ PSTReturn
    \/ PSTFinish
    \/ EMLPrepare
    \/ EMLSaveRoot
    \/ EMLFile
    \/ EMLFlush
    \/ Retry

SpecRetry == InitRetry /\ [][NextRetry]_vars

\* createMessage is called on one PST item in folder "f1" of the evidence
\* item, without attachments.
Normalize ==
    /\ pc = "createMessage"
    /\ \E native \in input.natives :
          created' = Append(created,
                            createMessage(native, "f1", evidence, <<>>,
                                          NewUUID(nextUUID + 1)))
    /\ nextUUID' = nextUUID + 1
    /\ pc' = "Done"
    /\ result' = "ok"
    /\ UNCHANGED <<input, evidence, dbEvidence, treeNodes, uploads,
                   kafkaMessages, published, normalized, stack, cur, more,
                   total, parserCalls, parsedSets, joined, listed>>
    /\ UNCHANGED liveVars
    /\ UNCHANGED netVars
    /\ UNCHANGED retryVars
    /\ UNCHANGED fetchVars

\* parseAddress is called on the address list of one envelope field.
JoinAddresses ==
    /\ pc = "parseAddress"
    /\ joined' = parseAddress(input.addresses)
    /\ pc' = "getAddressesFromHeader"
    /\ UNCHANGED <<input, evidence, dbEvidence, treeNodes, uploads,
                   kafkaMessages, published, normalized, nextUUID, stack, cur,
                   more, total, parserCalls, parsedSets, result, created,
                   listed>>
    /\ UNCHANGED liveVars
    /\ UNCHANGED netVars
    /\ UNCHANGED retryVars
    /\ UNCHANGED fetchVars

\* getAddressesFromHeader is called on the header parseAddress returned.
ListAddresses ==
    /\ pc = "getAddressesFromHeader"
    /\ listed' = getAddressesFromHeader(joined)
    /\ pc' = "Done"
    /\ result' = "ok"
    /\ UNCHANGED <<input, evidence, dbEvidence, treeNodes, uploads,
                   kafkaMessages, published, normalized, nextUUID, stack, cur,
                   more, total, parserCalls, parsedSets, created, joined>>
    /\ UNCHANGED liveVars
    /\ UNCHANGED netVars
    /\ UNCHANGED retryVars
    /\ UNCHANGED fetchVars

\* The address lists of up to n addresses.
RECURSIVE AddressLists(_)
AddressLists(n) ==
    IF n = 0 THEN {<<>>}
    ELSE LET shorter == AddressLists(n - 1)
         IN shorter \cup {Append(l, a) : l \in shorter, a \in {AddrA, AddrB, AddrC}}

\* The envelope fields of the model: up to MaxAddresses addresses.
AddressInputs ==
    {[kind |-> "addresses", fileName |-> "", isParsed |-> FALSE,
      parent |-> <<>>, mailboxes |-> <<>>, cap |-> 0, natives |-> {},
      varied |-> FALSE, addresses |-> l] : l \in AddressLists(MaxAddresses)}

InitAddress ==
    /\ IngestInit(AddressInputs)
    /\ NetInit("Idle")

NextAddress ==
    \/ JoinAddresses
    \/ ListAddresses

SpecAddress == InitAddress /\ [][NextAddress]_vars

\* The two results of an accessor that yields v when it succeeds.
Results(v) == {Ok(v), Err("")}

\* The mail accessors of the items createMessage is called on: each one
\* failing or succeeding, the received date also before the epoch.
ItemMails ==
    [messageId : {"m1"}, subject : Results("s"), from : Results("a@x"),
     to : Results("b@x"), cc : Results("c@x"), body : Results("b"),
     bodyHTML : Results("<p>b</p>"), headers : Results("h"),
     date : {Ok(7), Ok(-5), Err(0)}, atts : {0}]

\* Their message class and properties: appointments and contacts with each
\* property failing or succeeding, a mail, and an item whose class cannot be
\* read although it has the properties of an appointment.
ItemClasses ==
    [messageClass : {Ok("IPM.Appointment")},
     allAttendees : Results("x;y"), location : Results("room"),
     startTime : Results("t1"), endTime : Results("t2"),
     givenName : {Err("")}, emailDisplayName : {Err("")},
     companyName : {Err("")}, businessPhoneNumber : {Err("")},
     mobilePhoneNumber : {Err("")}]
    \cup
    [messageClass : {Ok("IPM.Contact")},
     allAttendees : {Err("")}, location : {Err("")},
     startTime : {Err("")}, endTime : {Err("")},
     givenName : Results("gn"), emailDisplayName : Results("dn"),
     companyName : Results("co"), businessPhoneNumber : Results("bp"),
     mobilePhoneNumber : Results("mp")]
    \cup
    [messageClass : {Ok("IPM.Note"), Err("")},
     allAttendees : {Ok("x;y")}, location : {Ok("room")},
     startTime : {Ok("t1")}, endTime : {Ok("t2")},
     givenName : {Ok("gn")}, emailDisplayName : {Ok("dn")},
     companyName : {Ok("co")}, businessPhoneNumber : {Ok("bp")},
     mobilePhoneNumber : {Ok("mp")}]

NormalizerInputs ==
    {[kind |-> "message", fileName |-> "hash-mail.pst", isParsed |-> FALSE,
      parent |-> <<>>, mailboxes |-> <<>>, cap |-> 1,
      natives |-> {mail @@ class}, varied |-> TRUE] :
        mail \in ItemMails, class \in ItemClasses}

InitNormalizer ==
    /\ IngestInit(NormalizerInputs)
    /\ NetInit("Idle")

NextNormalizer == Normalize

SpecNormalizer == InitNormalizer /\ [][NextNormalizer]_vars

\* The progress reports of parseMailboxes' message loop for one mailbox, the
\* messages being kept as their count only: Select reports the mailbox's
\* message count.
ProgressSelect ==
    /\ pc = "ProgressSelect"
    /\ mbox' = [name |-> input.mailboxes[1], messages |-> input.cap,
                totalSentMessages |-> 0, streamed |-> 0]
    /\ pc' = "ProgressReport"
    /\ UNCHANGED <<input, evidence, dbEvidence, treeNodes, uploads,
                   kafkaMessages, published, normalized, nextUUID, stack, cur,
                   more, total, parserCalls, parsedSets, result, progress,
                   closes, sessions, logouts, pendingFetch, reconnects,
                   selected>>
    /\ UNCHANGED netVars
    /\ UNCHANGED retryVars
    /\ UNCHANGED normalizerVars
    /\ UNCHANGED fetchVars

\* The buffer has reached BatchSize messages and is flushed: the count of
\* sent messages grows by the batch and the percentage is reported.
ProgressReport ==
    /\ pc = "ProgressReport"
    /\ mbox.streamed + BatchSize <= mbox.messages
    /\ LET sent == mbox.totalSentMessages + BatchSize IN
       /\ progress' = Append(progress, ProgressPercentage(sent, mbox.messages))
       /\ mbox' = [mbox EXCEPT !.streamed = @ + BatchSize,
                               !.totalSentMessages = sent]
    /\ UNCHANGED <<input, evidence, dbEvidence, treeNodes, uploads,
                   kafkaMessages, published, normalized, nextUUID, pc, stack,
                   cur, more, total, parserCalls, parsedSets, result, closes,
                   sessions, logouts, pendingFetch, reconnects, selected>>
    /\ UNCHANGED netVars
    /\ UNCHANGED retryVars
    /\ UNCHANGED normalizerVars
    /\ UNCHANGED fetchVars

\* The message counts of the mailboxes: the multiples of half a batch from
\* one batch on.
ProgressMailboxSizes ==
    {n \in BatchSize..MaxProgressMsgs : (2 * n) % BatchSize = 0}

ProgressInputs ==
    {[kind |-> "progress", fileName |-> "", isParsed |-> FALSE, parent |-> <<>>,
      mailboxes |-> <<MailboxName(1)>>, cap |-> n, natives |-> {TypicalNative},
      varied |-> FALSE] : n \in ProgressMailboxSizes}

InitProgress ==
    /\ IngestInit(ProgressInputs)
    /\ NetInit("Idle")

NextProgress ==
    \/ ProgressSelect
    \/ ProgressReport

SpecProgress == InitProgress /\ [][NextProgress]_vars

(***************************************************************************)
(* Properties of the ingestion paths.                                      *)
(***************************************************************************)
\* The messages handed to the Message Bus so far, in publish order.
PublishedMessages == Flatten(published)

\* The job has one batch buffer: an archive of at most one sub-folder, or an
\* account of at most one mailbox.
SingleBuffer == Len(input.parent) <= 1 /\ Len(input.mailboxes) <= 1

\* C1: on every ingestion path, N messages appended to one batch buffer are
\* published as floor(N / 100) calls of exactly 100 messages followed by one
\* call of N mod 100 messages when that is not zero, and the batches
\* concatenated are the N messages in traversal order.
C1_BatchesOfHundred ==
    (SingleBuffer /\ result = "ok") =>
        LET N == Len(normalized)
            full == N \div BatchSize
            rest == N % BatchSize
        IN /\ Len(published) = full + (IF rest # 0 THEN 1 ELSE 0)
           /\ \A i \in 1..full : Len(published[i]) = BatchSize
           /\ rest # 0 => Len(published[full + 1]) = rest
           /\ PublishedMessages = normalized

\* C2: when an ingestion pass (PST, EML or live, with any number of
\* reconnections) returns without error, the published messages are exactly
\* the normalized messages, each one time.
C2_PublishedExactlyOnce ==
    result = "ok" => PublishedMessages = normalized

\* A live pass went through a reconnection, published messages of two
\* mailboxes and returned without error.
C2_Witness ==
    /\ input.kind = "live"
    /\ result = "ok"
    /\ reconnects > 0
    /\ Len(published) >= 2

\* C3: Evidence.Parse on an evidence item whose parsed flag is true returns
\* an error and does nothing else: no parser is invoked, no TreeNode is
\* persisted, no attachment uploaded, no message published, and the
\* evidence is unchanged in memory and in the database.
C3_ReparseRejected ==
    (input.kind = "evidence" /\ input.isParsed) =>
        /\ pc = "Done" => result = "evidence is already parsed"
        /\ parserCalls = <<>>
        /\ treeNodes = <<>>
        /\ uploads = <<>>
        /\ published = <<>>
        /\ normalized = <<>>
        /\ evidence = [UUID |-> "e1", FileName |-> input.fileName, IsParsed |-> TRUE]
        /\ dbEvidence = TRUE

\* Parse has returned for an evidence item that was parsed before.
C3_Witness ==
    input.kind = "evidence" /\ input.isParsed /\ pc = "Done"

\* C4: when Evidence.Parse returns without error for a .pst or .zip evidence
\* item, its parsed flag is true in memory and in the persisted record, and
\* was set exactly once.
C4_ParsedAfterSuccess ==
    (input.kind = "evidence" /\ pc = "Done" /\ result = "ok") =>
        /\ evidence.IsParsed
        /\ dbEvidence
        /\ parsedSets = 1

\* C5: every persisted TreeNode whose parent is not "NULL" has a parent that
\* was persisted strictly earlier and carries the same evidence identity;
\* tree node identities are distinct, so the nodes form a forest.
C5_ParentPersistedEarlier ==
    /\ \A i \in 1..Len(treeNodes) :
          treeNodes[i].Parent # "NULL" =>
              \E j \in 1..(i - 1) :
                  /\ treeNodes[j].FolderUUID = treeNodes[i].Parent
                  /\ treeNodes[j].EvidenceUUID = treeNodes[i].EvidenceUUID
    /\ \A i, j \in 1..Len(treeNodes) :
          treeNodes[i].FolderUUID = treeNodes[j].FolderUUID => i = j

\* A sub-folder's sub-folder has been persisted.
C5_Witness ==
    \E i, j \in 1..Len(treeNodes) :
        /\ treeNodes[i].Parent = treeNodes[j].FolderUUID
        /\ treeNodes[j].Parent # "NULL"

\* C6: whenever an evidence ingestion returns an error, the evidence's parsed
\* flag is false afterwards, in memory and in the persisted record.
C6_UnparsedAfterError ==
    (input.kind = "evidence" /\ ~input.isParsed /\ pc = "Done" /\ result # "ok") =>
        /\ ~evidence.IsParsed
        /\ ~dbEvidence

\* C7: every published message has received >= 0.
C7_ReceivedNotNegative ==
    \A i \in 1..Len(PublishedMessages) : PublishedMessages[i].Value.Received >= 0

\* C8: no string field of a published message is the empty string.
C8_NoEmptyStringField ==
    \A i \in 1..Len(PublishedMessages) :
        LET m == PublishedMessages[i].Value IN
        /\ m.MessageID # ""
        /\ m.Subject # ""
        /\ m.From # ""
        /\ m.To # ""
        /\ m.CC # ""
        /\ m.Size # ""
        /\ m.Body # ""
        /\ m.Headers # ""
        /\ m.FolderUUID # ""
        /\ m.EvidenceUUID # ""

(***************************************************************************)
(* Properties of GetNetwork.                                               *)
(***************************************************************************)
\* Number of entries of a list that equal x.
Occurs(list, x) == Cardinality({k \in 1..Len(list) : list[k] = x})

\* Message i is the first of the list with its message-id, or has none.
FirstOccurrence(messages, i) ==
    \/ messages[i].MessageID = messageNullValue
    \/ \A j \in 1..(i - 1) : messages[j].MessageID # messages[i].MessageID

\* Times the message names x as sender and y as To or CC recipient.
Contribution(message, x, y) ==
    Occurs(getAddressesFromHeader(message.From), x)
        * Occurs(getAddressesFromHeader(message.To)
                    \o getAddressesFromHeader(message.CC), y)

\* The tally from x to y over the first occurrences among the first n messages.
RECURSIVE TallyOfFirst(_, _, _, _)
TallyOfFirst(messages, n, x, y) ==
    IF n = 0 THEN 0
    ELSE TallyOfFirst(messages, n - 1, x, y)
            + (IF FirstOccurrence(messages, n)
               THEN Contribution(messages[n], x, y) ELSE 0)

\* C9: the sent/received tally counts, of the messages sharing a message-id
\* other than "NULL", the first occurrence only, and counts every message
\* whose message-id is "NULL": after every iteration of the loop over the
\* messages, and when the network is returned.
C9_CopiesCountedOnce ==
    netPc \in {"Tally", "Done"} =>
        \A x, y \in NetAddresses :
            SentCount(sentMap, x, y) = TallyOfFirst(allMessages, Len(allMessages), x, y)

\* A network was returned for a corpus that holds a message from A to B
\* three times under one message-id.
C9_Witness ==
    /\ netPc = "Done"
    /\ ~network.err
    /\ Len(allMessages) = 3
    /\ \A i \in 1..3 : allMessages[i] = NetMessage("m1", AddrA, AddrB, messageNullValue, 5)
    /\ SentCount(sentMap, AddrA, AddrB) = 1

\* Address x has traffic in both directions with some address.
Reciprocal(x) ==
    \E c \in NetAddresses :
        SentCount(sentMap, x, c) > 0 /\ SentCount(sentMap, c, x) > 0

\* C10: for addresses A and B with a positive sent count from A to B and a
\* zero count from B to A there is no NetworkLink between A and B in either
\* direction, and there is a NetworkNode for A or for B only if that address
\* has traffic in both directions with some address (a pair other than A, B).
C10_NoOneWayLink ==
    \A a, b \in NetAddresses :
        (SentCount(sentMap, a, b) > 0 /\ SentCount(sentMap, b, a) = 0) =>
            /\ ~containsLink(networkLinks, a, b)
            /\ ~containsLink(networkLinks, b, a)
            /\ ~containsLink(network.Links, a, b)
            /\ ~containsLink(network.Links, b, a)
            /\ \A x \in {a, b} :
                  (containsNode(networkNodes, x) \/ containsNode(network.Nodes, x))
                      => Reciprocal(x)

\* A network was returned in which A sent to B without an answer, A and C
\* wrote to each other, and there is a node for A and none for B.
C10_Witness ==
    /\ netPc = "Done"
    /\ ~network.err
    /\ SentCount(sentMap, AddrA, AddrB) > 0
    /\ SentCount(sentMap, AddrB, AddrA) = 0
    /\ SentCount(sentMap, AddrA, AddrC) > 0
    /\ SentCount(sentMap, AddrC, AddrA) > 0
    /\ containsNode(network.Nodes, AddrA)
    /\ ~containsNode(network.Nodes, AddrB)
    /\ containsLink(network.Links, AddrA, AddrC)

\* Number of links of the list that join a and b, in either direction.
LinksBetween(links, a, b) ==
    Cardinality({k \in 1..Len(links) :
        \/ links[k].Source = a /\ links[k].Target = b
        \/ links[k].Source = b /\ links[k].Target = a})

\* The nodes of the list that stand for address x.
NodesOf(nodes, x) == {k \in 1..Len(nodes) : nodes[k].ID = x}

\* Address x has traffic in both directions with an address other than y.
OtherCounterpart(x, y) ==
    \E c \in NetAddresses \ {y} :
        SentCount(sentMap, x, c) > 0 /\ SentCount(sentMap, c, x) > 0

\* min(30, sent * received)
CappedProduct(sent, received) ==
    IF sent * received < 30 THEN sent * received ELSE 30

\* C11: for every pair of distinct addresses A, B with traffic in both
\* directions the returned network has exactly one NetworkLink for the pair,
\* exactly one NetworkNode for A and one for B, and when neither has another
\* reciprocal counterpart both nodes have size min(30, sent(A,B) * sent(B,A)).
C11_OneLinkPerPair ==
    (netPc = "Done" /\ ~network.err) =>
        \A a, b \in NetAddresses :
            (a # b /\ SentCount(sentMap, a, b) > 0 /\ SentCount(sentMap, b, a) > 0) =>
                /\ LinksBetween(network.Links, a, b) = 1
                /\ Cardinality(NodesOf(network.Nodes, a)) = 1
                /\ Cardinality(NodesOf(network.Nodes, b)) = 1
                /\ (~OtherCounterpart(a, b) /\ ~OtherCounterpart(b, a)) =>
                      \A k \in NodesOf(network.Nodes, a) \cup NodesOf(network.Nodes, b) :
                          network.Nodes[k].Size =
                              CappedProduct(SentCount(sentMap, a, b),
                                            SentCount(sentMap, b, a))

(***************************************************************************)
(* Properties of the live-mailbox ingestor.                                *)
(***************************************************************************)
\* The mailboxes some activation of parseMailboxes has completed.
CompletedMailboxes ==
    UNION {{stack[k].parsed[i] : i \in 1..Len(stack[k].parsed)} : k \in 1..Len(stack)}

\* C12: when Select raises "imap: connection closed", the retried pass is run
\* on exactly the mailboxes of the current list that are not completed, in
\* their order, beginning with the mailbox Select failed on; and no completed
\* mailbox is selected again.
C12_RetryVisitsUnvisited ==
    [][input.kind = "live" =>
          /\ (Len(stack') > Len(stack) /\ stack # <<>>) =>
                /\ Head(stack').names =
                      SelectSeq(Head(stack).names,
                                LAMBDA n : n \notin CompletedMailboxes)
                /\ Head(stack').names # <<>>
                /\ Head(Head(stack').names) = Head(stack).names[Head(stack).idx]
                /\ Head(stack').idx = 1
          /\ selected' # selected =>
                selected'[Len(selected')].name \notin CompletedMailboxes]_vars

\* Of the list mailbox1, mailbox2, mailbox3 the first mailbox was completed,
\* Select failed on the second, and the retried pass has completed exactly
\* the second and the third.
C12_Witness ==
    /\ pc = "LiveLoop"
    /\ Len(stack) = 2
    /\ stack[2].names = <<MailboxName(1), MailboxName(2), MailboxName(3)>>
    /\ stack[2].parsed = <<MailboxName(1)>>
    /\ stack[1].names = <<MailboxName(2), MailboxName(3)>>
    /\ stack[1].parsed = <<MailboxName(2), MailboxName(3)>>
    /\ Len(published) >= 2

\* C13: in every run of ParseOutlookIMAPEmails that has returned, with or
\* without error, the progress channel was closed exactly once.
C13_ProgressClosedOnce ==
    (input.kind = "live" /\ pc = "Done") => closes = 1

\* C14: the consumer receives the result of every fetch task it started
\* before it leaves the mailbox, so when the run has returned no fetch task
\* is left waiting on its message or result channel.
C14_FetchAwaited ==
    (input.kind = "live" /\ pc = "Done") => pendingFetch = 0

\* The step records the mailbox being streamed as parsed.
MailboxCompletes ==
    /\ pc = "LiveStream"
    /\ pc' = "LiveLoop"
    /\ Len(Head(stack').parsed) = Len(Head(stack).parsed) + 1

\* C15: a mailbox that completes streaming with a non-empty trailing batch
\* has 100 as its last progress value, sent in the step that published the
\* trailing batch; and no progress value is sent without a publish.
C15_TrailingProgressHundred ==
    [][input.kind = "live" =>
          /\ (MailboxCompletes /\ kafkaMessages # <<>>) =>
                /\ published' = Append(published, kafkaMessages)
                /\ progress' = Append(progress, 100)
          /\ progress' # progress =>
                /\ Len(published') = Len(published) + 1
                /\ Len(progress') = Len(progress) + 1]_vars

\* A mailbox of 250 messages was completed: two full batches and a trailing
\* batch of 50 were published, and the progress values are 40, 80, 100.
C15_Witness ==
    /\ input.kind = "live"
    /\ pc = "LiveLoop"
    /\ Head(stack).parsed = <<MailboxName(1)>>
    /\ Len(published) = 3
    /\ Len(published[3]) = 50
    /\ progress = <<40, 80, 100>>

(***************************************************************************)
(* Properties of repeated ingestion.                                       *)
(***************************************************************************)
\* C16: when an ingestion aborted with a fatal error and a fresh ingestion of
\* the same evidence item has succeeded, the Tree Store, the Attachment Sink
\* and the Message Bus hold what one successful ingestion leaves: one
\* TreeNode per source folder, and no TreeNode, attachment or message of the
\* aborted attempt beside those of the successful one.
C16_RetryIdempotent ==
    (input.kind = "evidence" /\ pc = "Done" /\ result = "ok" /\ attempts > 1) =>
        /\ Len(treeNodes) =
              1 + (IF Ext(input.fileName) = ".pst" THEN Len(input.parent) ELSE 0)
        /\ before.treeNodes = 0
        /\ before.uploads = 0
        /\ before.published = <<>>

(***************************************************************************)
(* Properties of the Attachment Sink.                                      *)
(***************************************************************************)
\* The attachments of the normalized messages that were uploaded.
UploadedAttachments ==
    UNION {{normalized[i].Value.Attachments[j] :
                j \in {j \in 1..Len(normalized[i].Value.Attachments) :
                          \E u \in 1..Len(uploads) :
                              uploads[u] = normalized[i].Value.Attachments[j].UUID}} :
           i \in 1..Len(normalized)}

RegisteredExtensions ==
    UNION {GetParsers[i].extensions : i \in 1..Len(GetParsers)}

\* The evidence item is unparsed and no registered parser supports its file.
UnsupportedEvidence ==
    /\ input.kind = "evidence"
    /\ ~input.isParsed
    /\ Ext(input.fileName) \notin RegisteredExtensions

\* C18: Evidence.Parse on an unparsed evidence item whose extension no
\* registered parser supports never leaves Parse except to return "failed to
\* find supported parser", invokes no parser and changes nothing (no tree
\* node, no upload, no publish, no identity drawn, the parsed flag unset in
\* memory and in the database); and every parser that was invoked supports
\* the extension of the file.
C18_UnsupportedFailsClosed ==
    /\ UnsupportedEvidence =>
          /\ pc \in {"Parse", "Done"}
          /\ pc = "Done" => result = "failed to find supported parser"
          /\ parserCalls = <<>>
          /\ treeNodes = <<>>
          /\ uploads = <<>>
          /\ published = <<>>
          /\ normalized = <<>>
          /\ kafkaMessages = <<>>
          /\ nextUUID = 0
          /\ ~evidence.IsParsed
          /\ dbEvidence = input.isParsed
    /\ input.kind = "evidence" =>
          \A c \in 1..Len(parserCalls) :
              \E i \in 1..Len(GetParsers) :
                  /\ GetParsers[i].name = parserCalls[c]
                  /\ Ext(evidence.FileName) \in GetParsers[i].extensions

\* Evidence.Parse has returned on an unparsed item with an unsupported
\* extension.
C18_Witness ==
    /\ UnsupportedEvidence
    /\ pc = "Done"
    /\ result = "failed to find supported parser"

(***************************************************************************)
(* Properties of the batch buffer.                                         *)
(***************************************************************************)
\* The buffer and the publish calls made so far respect the batch size.
BufferWithinBatch ==
    /\ Len(kafkaMessages) <= BatchSize
    /\ \A i \in 1..Len(published) :
          /\ Len(published[i]) <= BatchSize
          /\ published[i] # <<>>

\* A step that makes a publish call leaves the buffer empty.
EmptyAfterPublish ==
    Len(published') > Len(published) => kafkaMessages' = <<>>

\* C19: on every ingestion path, in every reachable state the batch buffer
\* holds at most 100 messages, no publish call carries more than 100
\* messages or none, and the buffer is empty right after each publish call.
C19_BatchBufferInvariant ==
    /\ []BufferWithinBatch
    /\ [][EmptyAfterPublish]_vars

\* C20: during the ingestion of one evidence item, every publish call but
\* the last one made carries exactly 100 messages, whatever the number of
\* folders: a call of fewer than 100 messages is followed by no other call.
C20_ShortBatchOnlyLast ==
    input.kind = "evidence" =>
        \A i \in 1..(Len(published) - 1) : Len(published[i]) = BatchSize

(***************************************************************************)
(* Properties of the folder tree.                                          *)
(***************************************************************************)
\* The ingestion is that of a PST container.
PSTIngestion == input.kind = "evidence" /\ Ext(input.fileName) = ".pst"

\* The sub-folders of folder f in the container's hierarchy, in the
\* decoder's order.
SubFoldersOf(f) ==
    SelectSeq([i \in 1..Len(input.parent) |-> i], LAMBDA i : input.parent[i] = f)

\* The folders below the folders of todo, pre-order and depth-first.
RECURSIVE PreOrder(_)
PreOrder(todo) ==
    IF todo = <<>> THEN <<>>
    ELSE <<Head(todo)>> \o PreOrder(SubFoldersOf(Head(todo))) \o PreOrder(Tail(todo))

\* The position in treeNodes of the TreeNode persisted for folder f (0: the
\* root folder), or 0 when there is none.
NodeIndexOf(f) ==
    IF f = 0 THEN 1
    ELSE LET at == {k \in 2..Len(treeNodes) :
                       treeNodes[k].Title = "folder" \o ToString(f)}
         IN IF at = {} THEN 0 ELSE CHOOSE k \in at : TRUE

\* C21: after a successful PST ingestion the TreeNodes persisted after the
\* root are those of the folders below the root, one per folder, in pre-order
\* depth-first order, with distinct identities, and the parent reference of
\* each is the identity of the TreeNode of the folder's parent folder.
C21_TreeIsomorphic ==
    (PSTIngestion /\ result = "ok") =>
        LET order == PreOrder(SubFoldersOf(0)) IN
        /\ Len(order) = Len(input.parent)
        /\ Len(treeNodes) = 1 + Len(order)
        /\ \A k \in 1..Len(order) :
              /\ treeNodes[k + 1].Title = "folder" \o ToString(order[k])
              /\ NodeIndexOf(input.parent[order[k]]) # 0
              /\ treeNodes[k + 1].Parent =
                    treeNodes[NodeIndexOf(input.parent[order[k]])].FolderUUID
        /\ \A j, k \in 1..Len(treeNodes) :
              treeNodes[j].FolderUUID = treeNodes[k].FolderUUID => j = k

\* A container whose pre-order differs from its breadth-first order has been
\* ingested: folder 3 lies under folder 1 and is visited before folder 2.
C21_Witness ==
    /\ PSTIngestion
    /\ result = "ok"
    /\ input.parent = <<0, 0, 1>>
    /\ Len(treeNodes) = 4
    /\ treeNodes[3].Title = "folder3"

(***************************************************************************)
(* Ordering of persistence and publication.                                *)
(***************************************************************************)
\* The position in treeNodes of the TreeNode with identity uuid, or 0.
NodeIndexByUUID(uuid) ==
    LET at == {k \in 1..Len(treeNodes) : treeNodes[k].FolderUUID = uuid}
    IN IF at = {} THEN 0 ELSE CHOOSE k \in at : TRUE

\* s is an initial segment of t.
IsPrefix(s, t) == Len(s) <= Len(t) /\ s = SubSeq(t, 1, Len(s))

\* C22: in an archive ingestion the published messages are an initial
\* segment of the messages in the decoder's order, and none is published
\* before the root TreeNode is persisted; in a PST ingestion every published
\* message names a folder whose TreeNode is already persisted, the folders
\* of the published messages follow the order in which the folders were
\* visited, and when the traversal is between folders every message of the
\* folders visited so far is published.
C22_PublishedInVisitOrder ==
    LET sent == PublishedMessages
        nodeOf == [i \in 1..Len(sent) |-> NodeIndexByUUID(sent[i].Value.FolderUUID)]
    IN
    /\ input.kind = "evidence" =>
          /\ IsPrefix(sent, normalized)
          /\ sent # <<>> => treeNodes # <<>>
    /\ PSTIngestion =>
          /\ \A i \in 1..Len(sent) : nodeOf[i] # 0
          /\ \A i \in 1..(Len(sent) - 1) : nodeOf[i] <= nodeOf[i + 1]
          /\ pc \in {"PSTCall", "PSTLoop", "PSTFinish"} => sent = normalized

\* A PST ingestion has published the messages of a folder and then those of
\* a folder visited later.
C22_Witness ==
    /\ PSTIngestion
    /\ result = "ok"
    /\ Len(PublishedMessages) >= 2
    /\ PublishedMessages[1].Value.FolderUUID # PublishedMessages[2].Value.FolderUUID

\* The persisted TreeNodes whose parent is the root sentinel.
RootNodes == {k \in 1..Len(treeNodes) : treeNodes[k].Parent = "NULL"}

\* C23: in an archive ingestion (PST or EML) the first TreeNode persisted is
\* the one whose parent is the root sentinel "NULL" and no other persisted
\* TreeNode has that parent; no attachment is uploaded and no message is
\* published before it is persisted; a successful ingestion has persisted it.
C23_RootPersistedFirst ==
    input.kind = "evidence" =>
        /\ RootNodes = IF treeNodes = <<>> THEN {} ELSE {1}
        /\ (uploads # <<>> \/ published # <<>>) => RootNodes = {1}
        /\ result = "ok" => RootNodes = {1}

\* A successful archive ingestion has persisted sub-folder TreeNodes,
\* uploaded an attachment and published messages.
C23_Witness ==
    /\ input.kind = "evidence"
    /\ result = "ok"
    /\ Len(treeNodes) >= 2
    /\ uploads # <<>>
    /\ published # <<>>

(***************************************************************************)
(* Failure of a TreeNode's persistence.                                    *)
(***************************************************************************)
\* The step is a failing TreeNode.Save: the root's (the parser is at the root
\* and moves on with no row added), or a sub-folder's (an identity was drawn
\* for the sub-folder's TreeNode and no row was added).
TreeNodeSaveFails ==
    /\ treeNodes' = treeNodes
    /\ \/ pc \in {"PSTRoot", "EMLRoot"} /\ pc' # pc
       \/ pc = "PSTLoop" /\ nextUUID' = nextUUID + 1

\* C24: a failing TreeNode.Save, of the root or of a sub-folder, ends the
\* ingestion with an error in the same step, without an upload or a publish;
\* and once the ingestion has ended no TreeNode is persisted, no attachment
\* is uploaded and no message is published.
C24_SaveFailureFatal ==
    [][/\ TreeNodeSaveFails =>
            /\ pc' = "Done"
            /\ result' \notin {"ok", "running"}
            /\ UNCHANGED <<uploads, published>>
       /\ pc = "Done" => UNCHANGED <<treeNodes, uploads, published>>]_vars

\* The Save of a sub-folder's TreeNode has failed after another sub-folder's
\* TreeNode was persisted: an identity was drawn for it, no row was added and
\* no message was read.
C24_Witness ==
    /\ PSTIngestion
    /\ pc = "Done"
    /\ result = "failed to get sub-folders"
    /\ total = 0
    /\ Len(treeNodes) >= 2
    /\ nextUUID = Len(treeNodes) + 1

(***************************************************************************)
(* Ownership of the persisted TreeNodes.                                   *)
(***************************************************************************)
\* The folder identities in a sequence of TreeNodeDTOs, at every depth.
RECURSIVE DTOValues(_)
DTOValues(dtos) ==
    UNION {{dtos[k].Value} \cup DTOValues(dtos[k].Children) : k \in 1..Len(dtos)}

\* The folder identities found by walking the project's tree from its roots.
WalkedFolders ==
    LET roots == GetRootTreeNodes(ProjectUUID, treeNodes)
    IN UNION {{roots[k].FolderUUID}
                 \cup DTOValues(WalkTreeNodeChildren(roots[k].FolderUUID,
                                                     ProjectUUID, treeNodes)) :
              k \in 1..Len(roots)}

\* C25: every TreeNode persisted during the ingestion of an evidence item
\* carries the project's identity and the evidence item's identity, and
\* after a successful ingestion the walk of the project's tree from the root
\* finds every persisted folder.
C25_NodesOwnedAndWalkable ==
    input.kind = "evidence" =>
        /\ \A k \in 1..Len(treeNodes) :
              /\ treeNodes[k].ProjectUUID = ProjectUUID
              /\ treeNodes[k].EvidenceUUID = evidence.UUID
        /\ result = "ok" =>
              WalkedFolders = {treeNodes[k].FolderUUID : k \in 1..Len(treeNodes)}

(***************************************************************************)
(* Provenance of the published messages.                                   *)
(***************************************************************************)
\* C26: every message published during an archive ingestion carries the
\* project's identity, the identity of a TreeNode persisted in the same
\* ingestion as its folder, and the identity of the evidence item.
C26_MessageProvenance ==
    input.kind = "evidence" =>
        \A i \in 1..Len(published) : \A j \in 1..Len(published[i]) :
            LET message == published[i][j].Value IN
            /\ message.ProjectUUID = ProjectUUID
            /\ NodeIndexByUUID(message.FolderUUID) # 0
            /\ message.EvidenceUUID = evidence.UUID

(***************************************************************************)
(* Failures of single attachments.                                         *)
(***************************************************************************)
\* The step handles one message of an archive and got past the decoder's
\* calls: an identity was drawn for an attachment or for the message.
MessageStep ==
    /\ input.kind = "evidence"
    /\ pc \in {"PSTMessages", "EMLWalk"}
    /\ total' = total + 1
    /\ nextUUID' > nextUUID

\* The step ended on a failing os.Remove: the last identity drawn is that of
\* an attachment which was uploaded.
RemoveFails ==
    /\ uploads' # uploads
    /\ Last(uploads') = NewUUID(nextUUID')

\* C27: when handling a message, no failure to write or to upload one of its
\* attachments keeps the message from being handed to the bus or ends the
\* ingestion: unless the removal of a temporary file fails, the message is
\* appended for publication, and the ingestion ends in that step only on a
\* failing publish of a full batch.
C27_AttachmentFailureTolerated ==
    [][(MessageStep /\ ~RemoveFails) =>
          /\ Len(normalized') = Len(normalized) + 1
          /\ pc' = "Done" => Len(kafkaMessages) + 1 >= BatchSize]_vars

\* The attachments embedded in the published messages.
PublishedAttachments ==
    LET sent == PublishedMessages
    IN UNION {{sent[i].Value.Attachments[a] :
                   a \in 1..Len(sent[i].Value.Attachments)} :
              i \in 1..Len(sent)}

\* C28: every attachment embedded in a message published by an archive
\* ingestion has a display name that is not empty: the source's file name,
\* or the sentinel "EMPTY_FILENAME" when the source supplies none.
C28_AttachmentNamed ==
    input.kind = "evidence" =>
        \A attachment \in PublishedAttachments :
            attachment.Name \in {"file", "EMPTY_FILENAME"}

(***************************************************************************)
(* Properties of the Message Normalizer.                                   *)
(***************************************************************************)
\* The labels and accessors of an appointment's and of a contact's
\* synthesized lines, in the order of the body.
AppointmentProperties ==
    <<<<"All attendees", "allAttendees">>, <<"Location", "location">>,
      <<"Start time", "startTime">>, <<"End time", "endTime">>>>

ContactProperties ==
    <<<<"Given name", "givenName">>,
      <<"Email display name", "emailDisplayName">>,
      <<"Company name", "companyName">>,
      <<"Business phone number", "businessPhoneNumber">>,
      <<"Mobile phone number", "mobilePhoneNumber">>>>

\* One labelled line per property of props whose accessor succeeds, in order.
RECURSIVE LabelledLines(_, _)
LabelledLines(native, props) ==
    IF props = <<>> THEN ""
    ELSE LET label == Head(props)[1]
             accessor == native[Head(props)[2]]
         IN (IF accessor.err THEN "" ELSE label \o ": " \o accessor.val \o "\n")
               \o LabelledLines(native, Tail(props))

\* The value of a text field: the accessor's value, the default when it fails.
FieldOf(accessor) == IF accessor.err THEN "" ELSE accessor.val

\* C29: createMessage returns one message for every combination of failing
\* and succeeding accessors; each text field holds its accessor's value, or
\* the default when that accessor fails; the received date is the accessor's
\* value, 0 when it fails or lies before the epoch; the body is, for an item
\* read as an appointment or a contact, one labelled line per succeeding
\* property accessor in fixed order, followed by the HTML rendering when its
\* accessor succeeds and by the plain rendering only when the HTML accessor
\* fails; the identities and the attachments are those given.
C29_NormalizerTotal ==
    (input.kind = "message" /\ pc = "Done") =>
        \A native \in input.natives :
            LET class == native.messageClass
                lines == IF class.err THEN ""
                         ELSE IF class.val = "IPM.Appointment"
                         THEN LabelledLines(native, AppointmentProperties)
                         ELSE IF class.val = "IPM.Contact"
                         THEN LabelledLines(native, ContactProperties)
                         ELSE ""
                rendering == IF ~native.bodyHTML.err THEN native.bodyHTML
                             ELSE native.body
            IN /\ Len(created) = 1
               /\ created[1].Subject = FieldOf(native.subject)
               /\ created[1].From = FieldOf(native.from)
               /\ created[1].To = FieldOf(native.to)
               /\ created[1].CC = FieldOf(native.cc)
               /\ created[1].Headers = FieldOf(native.headers)
               /\ created[1].Received =
                     IF native.date.err \/ native.date.val < 0 THEN 0
                     ELSE native.date.val
               /\ created[1].Body =
                     lines \o (IF rendering.err THEN "" ELSE "\n" \o rendering.val)
               /\ created[1].UUID = NewUUID(nextUUID)
               /\ created[1].ProjectUUID = ProjectUUID
               /\ created[1].FolderUUID = "f1"
               /\ created[1].EvidenceUUID = evidence.UUID
               /\ created[1].Attachments = <<>>

\* createMessage has returned for an appointment whose location, HTML body,
\* subject and date cannot be read while its other accessors succeed.
C29_Witness ==
    /\ input.kind = "message"
    /\ pc = "Done"
    /\ Len(created) = 1
    /\ \E native \in input.natives :
          /\ ~native.messageClass.err
          /\ native.messageClass.val = "IPM.Appointment"
          /\ native.location.err
          /\ native.bodyHTML.err
          /\ native.subject.err
          /\ native.date.err
    /\ created[1].Body = "All attendees: x;y\nStart time: t1\nEnd time: t2\n\nb"
    /\ created[1].Subject = ""
    /\ created[1].From = "a@x"
    /\ created[1].Received = 0

(***************************************************************************)
(* Properties of the progress feed.                                        *)
(***************************************************************************)
\* The step reports a percentage after the flush of a full batch.
FullBatchReported ==
    /\ Len(progress') = Len(progress) + 1
    /\ mbox'.totalSentMessages # mbox.totalSentMessages

\* C30: every value sent on the progress channel is an integer in 0..100;
\* the value sent after the flush of a full batch is
\* floor(100 * sent / count), sent counting the batch just flushed and count
\* being the mailbox's message count; and a value sent after an earlier
\* flush of the same mailbox is not smaller than the one sent before it.
C30_ProgressFloor ==
    [][Len(progress') = Len(progress) + 1 =>
          /\ Last(progress') \in 0..100
          /\ FullBatchReported =>
                Last(progress') =
                    (100 * mbox'.totalSentMessages) \div mbox'.messages
          /\ (mbox'.name = mbox.name /\ mbox.totalSentMessages > 0) =>
                Last(progress') >= Last(progress)]_vars

(***************************************************************************)
(* Error handling of the live-mailbox ingestor.                            *)
(***************************************************************************)
\* The step receives the result r of the fetch task of the mailbox streamed.
FetchEnds(r) ==
    /\ Len(fetched') = Len(fetched) + 1
    /\ Last(fetched') = [name |-> mbox.name, result |-> r]

\* The mailboxes whose fetch ended with r.
FetchedWith(r) ==
    {fetched[i].name : i \in {j \in 1..Len(fetched) : fetched[j].result = r}}

\* C31: when the fetch of a mailbox ends with "The specified message set is
\* invalid.", the mailbox is appended to the completed mailboxes of the
\* running pass, no error is returned, the pass goes on with the next
\* mailbox of its list; and no later Select, of this or of a retried pass,
\* names a mailbox whose fetch ended that way.
C31_InvalidSetSkipped ==
    [][input.kind = "live" =>
          /\ FetchEnds("The specified message set is invalid.") =>
                /\ result' = "running"
                /\ pc' = "LiveLoop"
                /\ Len(stack') = Len(stack)
                /\ Head(stack').names = Head(stack).names
                /\ Head(stack').parsed = Append(Head(stack).parsed, mbox.name)
                /\ Head(stack').idx = Head(stack).idx + 1
                /\ Tail(stack') = Tail(stack)
          /\ Len(selected') > Len(selected) =>
                Last(selected').name
                    \notin FetchedWith("The specified message set is invalid.")]_vars

\* Of the list mailbox1, mailbox2 the first mailbox was skipped for an
\* invalid message set, Select failed on the second with a closed
\* connection, and the retried pass selected only the second and ended
\* without error.
C31_Witness ==
    /\ input.kind = "live"
    /\ result = "ok"
    /\ fetched = <<[name |-> MailboxName(1),
                    result |-> "The specified message set is invalid."],
                   [name |-> MailboxName(2), result |-> "nil"]>>
    /\ selected = <<[name |-> MailboxName(1), session |-> 1],
                    [name |-> MailboxName(2), session |-> 1],
                    [name |-> MailboxName(2), session |-> 2]>>

\* The step starts a retried pass: a new session is authenticated and
\* parseMailboxes is entered again on the uncompleted mailboxes of the list.
PassResumed ==
    /\ result' = "running"
    /\ sessions' = sessions + 1
    /\ Len(stack') = Len(stack) + 1
    /\ Tail(stack') = stack
    /\ Head(stack').names =
          SelectSeq(Head(stack).names, LAMBDA n : n \notin CompletedMailboxes)
    /\ pc' = "LiveLoop"

\* C32: "imap: connection closed" never aborts the run, whether Select or
\* the fetch task reports it: unless the re-authentication itself fails the
\* step starts a retried pass on the uncompleted mailboxes, and the run
\* never returns the closed connection or the invalid message set as its
\* error.
C32_ClosedConnectionRecovered ==
    [][input.kind = "live" =>
          /\ reconnects' = reconnects + 1 =>
                (PassResumed \/ result' = "authentication failed")
          /\ FetchEnds("imap: connection closed") =>
                (PassResumed \/ result' = "authentication failed")
          /\ result' \notin {"imap: connection closed",
                             "The specified message set is invalid."}]_vars

\* The errors of the live ingestion that are fatal.
FatalErrors ==
    {"authentication failed", "list failed", "select failed", "fetch failed",
     "failed to write messages"}

\* C33: an error other than the closed connection and the invalid message
\* set is returned at once by every activation of parseMailboxes: the step
\* in which it occurs ends the run with that error and leaves no activation
\* behind, a failed publish or Select or authentication publishes nothing,
\* and once the run has returned nothing further is selected, published,
\* reported or authenticated.
C33_FatalErrorAborts ==
    [][input.kind = "live" =>
          /\ result = "running"
          /\ FetchEnds("fetch failed") => result' = "fetch failed"
          /\ result' \in FatalErrors =>
                /\ pc' = "Done"
                /\ stack' = <<>>
                /\ result' # "fetch failed" =>
                      /\ published' = published
                      /\ progress' = progress
                      /\ fetched' = fetched]_vars

\* Select failed with another error inside a retried pass, after a batch was
\* published: the run has returned that error.
C33_Witness ==
    /\ input.kind = "live"
    /\ result = "select failed"
    /\ sessions = 2
    /\ Len(published) >= 1
    /\ Len(selected) >= 3

(***************************************************************************)
(* The terminal step of the live-mailbox ingestor.                         *)
(***************************************************************************)
\* The number of fetches of mailbox n that ended with the mailbox completed.
Completions(n) ==
    Cardinality({i \in 1..Len(fetched) :
                    fetched[i].name = n /\ MailboxDone(fetched[i].result)})

\* Every mailbox of the initial list was completed exactly once.
AllCompletedOnce ==
    \A k \in 1..Len(input.mailboxes) : Completions(input.mailboxes[k]) = 1

\* C34: the progress channel is closed only when every mailbox of the
\* initial list has been completed (streamed or skipped with a warning)
\* exactly once; Logout is called only after the close, once, on the session
\* authenticated last; and a run that returned without error has closed the
\* channel and logged that session out.
C34_TerminalStep ==
    input.kind = "live" =>
        /\ closes >= 1 => (closes = 1 /\ AllCompletedOnce)
        /\ logouts # <<>> => (closes = 1 /\ logouts = <<sessions>>)
        /\ result = "ok" => (closes = 1 /\ logouts = <<sessions>>)

\* A run over three mailboxes returned without error after one reconnection:
\* one mailbox was skipped with a warning, two were streamed, and the second
\* session was logged out.
C34_Witness ==
    /\ input.kind = "live"
    /\ result = "ok"
    /\ Len(input.mailboxes) = 3
    /\ sessions = 2
    /\ logouts = <<2>>
    /\ closes = 1
    /\ Len(fetched) = 3
    /\ \E i \in 1..3 : fetched[i].result = "The specified message set is invalid."
    /\ published # <<>>

(***************************************************************************)
(* Termination of the live-mailbox ingestor.                               *)
(***************************************************************************)
\* The run has reached the terminal step or returned an error.
LiveEnded == closes = 1 \/ result # "running"

\* The step enters parseMailboxes again before the running pass completed
\* any mailbox.
RetriedFromStart ==
    /\ Len(stack') = Len(stack) + 1
    /\ stack # <<>>
    /\ Head(stack).parsed = <<>>

\* C35: when every call returns and the connection is closed finitely many
\* times, the run reaches the terminal step or returns an error; there is
\* one pass more than there were closed connections that were recovered, a
\* pass is entered for no other reason, and a retried pass entered before
\* any mailbox of the running pass completed is run on the same list.
C35_Terminates ==
    /\ <>LiveEnded
    /\ [](result = "running" /\ stack # <<>> => Len(stack) = reconnects + 1)
    /\ [][/\ (stack # <<>> /\ Len(stack') > Len(stack)) =>
                reconnects' = reconnects + 1
          /\ RetriedFromStart => Head(stack').names = Head(stack).names]_vars

\* A run over two mailboxes reached the terminal step after the connection
\* was closed MaxReconnects times, each time before any mailbox of the
\* running pass had completed.
C35_Witness ==
    /\ input.kind = "live"
    /\ closes = 1
    /\ reconnects = MaxReconnects
    /\ Len(stack) = MaxReconnects + 1
    /\ \A k \in 1..Len(stack) :
          stack[k].names = <<MailboxName(1), MailboxName(2)>>

(***************************************************************************)
(* The date range and the determinism of GetNetwork.                       *)
(***************************************************************************)
\* The received timestamps of the deduplicated messages.
CountedDates ==
    {allMessages[i].Received :
        i \in {j \in 1..Len(allMessages) : FirstOccurrence(allMessages, j)}}

\* C36: the network returned for a corpus with at least one message has as
\* FirstSentMessageDate the minimum and as LastSentMessageDate the maximum
\* of the received timestamps of the deduplicated messages, also when a
\* message has received = 0.
C36_DateRange ==
    (netPc = "Done" /\ ~network.err /\ allMessages # <<>>) =>
        /\ network.FirstSentMessageDate \in CountedDates
        /\ network.LastSentMessageDate \in CountedDates
        /\ \A d \in CountedDates :
              /\ network.FirstSentMessageDate <= d
              /\ d <= network.LastSentMessageDate

\* The addresses in ascending order.
AddressesAscending == <<"Bob", AddrA, AddrB, AddrC>>

\* The pairs <<from, to>> the two ranges yield when both go through their
\* keys in ascending order and whose counts are positive in both directions,
\* as positions in AddressesAscending.
ReciprocalPairs ==
    {p \in (1..Len(AddressesAscending)) \X (1..Len(AddressesAscending)) :
        /\ SentCount(sentMap, AddressesAscending[p[1]], AddressesAscending[p[2]]) > 0
        /\ SentCount(sentMap, AddressesAscending[p[2]], AddressesAscending[p[1]]) > 0}

\* Pair p is yielded before pair q.
YieldedBefore(p, q) == p[1] < q[1] \/ (p[1] = q[1] /\ p[2] <= q[2])

\* The size the node of address x gets in the run that ranges in ascending
\* order: the one computed at the first reciprocal pair that names x.
SizeAscending(x) ==
    LET naming == {p \in ReciprocalPairs :
                      x \in {AddressesAscending[p[1]], AddressesAscending[p[2]]}}
        first == CHOOSE p \in naming : \A q \in naming : YieldedBefore(p, q)
    IN NodeSize(SentCount(sentMap, AddressesAscending[first[1]],
                          AddressesAscending[first[2]]),
                SentCount(sentMap, AddressesAscending[first[2]],
                          AddressesAscending[first[1]]))

\* C37: for a given list of indexed messages every run returns the nodes,
\* with their sizes, and the links that the run ranging over the sent-count
\* map in ascending key order returns, in whatever order the map is ranged
\* over.
C37_Deterministic ==
    (netPc = "Done" /\ ~network.err) =>
        /\ {network.Nodes[k] : k \in 1..Len(network.Nodes)} =
              {[ID |-> x, Size |-> SizeAscending(x)] :
                  x \in {a \in NetAddresses : Reciprocal(a)}}
        /\ {network.Links[k] : k \in 1..Len(network.Links)} =
              {[Source |-> AddressesAscending[p[1]],
                Target |-> AddressesAscending[p[2]]] : p \in ReciprocalPairs}

(***************************************************************************)
(* The fetch task and the consumer of a mailbox.                           *)
(***************************************************************************)
\* A fetch task was started and its result has not been received: the task
\* is sending an envelope, or its result, on an unbuffered channel.
FetchTaskWaiting == pendingFetch > 0

\* C38: when every publish call and every progress send returns, the fetch
\* task of a mailbox and the consumer both finish: a fetch task that was
\* started gets its result received, which the consumer does only after the
\* envelope channel was closed.
C38_TasksFinish ==
    /\ [](FetchTaskWaiting => <>(~FetchTaskWaiting))
    /\ [][pendingFetch' < pendingFetch => (pc = "LiveStream" /\ ~more)]_vars

(***************************************************************************)
(* The keys of the published records.                                      *)
(***************************************************************************)
\* The identities NewUUID has handed out.
GeneratedUUIDs == {NewUUID(n) : n \in 1..nextUUID}

\* C39: every published record has as key the uuid of its payload, which is
\* an identity NewUUID generated, no two published records of the ingestion
\* share a key, and no record has an empty key or the all-default message as
\* payload.
C39_RecordKeys ==
    LET sent == PublishedMessages IN
    /\ \A i \in 1..Len(sent) :
          /\ sent[i].Key = sent[i].Value.UUID
          /\ sent[i].Key # ""
          /\ sent[i].Key \in GeneratedUUIDs
          /\ sent[i].Value # JSON(ZeroMessage)
    /\ \A i \in 2..Len(sent) : \A j \in 1..(i - 1) : sent[i].Key # sent[j].Key

(***************************************************************************)
(* The address header of the live normalizer.                              *)
(***************************************************************************)
\* The number of occurrences of ", " in header.
RECURSIVE SeparatorCount(_)
SeparatorCount(header) ==
    IF Len(header) < 2 THEN 0
    ELSE IF SubSeq(header, 1, 2) = ", " THEN 1 + SeparatorCount(SubSeq(header, 3, Len(header)))
    ELSE SeparatorCount(Tail(header))

\* header ends with ", ".
EndsWithSeparator(header) ==
    Len(header) >= 2 /\ SubSeq(header, Len(header) - 1, Len(header)) = ", "

\* C40: parseAddress joins n addresses with ", " between consecutive
\* addresses only: the header has n - 1 separators and none at its end, it
\* is the empty string for the empty list, and getAddressesFromHeader reads
\* from it exactly the n addresses.
C40_JoinedAddresses ==
    input.kind = "addresses" =>
        LET n == Len(input.addresses) IN
        /\ pc \in {"getAddressesFromHeader", "Done"} =>
              /\ SeparatorCount(joined) = IF n = 0 THEN 0 ELSE n - 1
              /\ ~EndsWithSeparator(joined)
              /\ n = 0 => joined = ""
        /\ pc = "Done" => listed = input.addresses

====
